---- MODULE Spec2Model ----
(***************************************************************************)
(* Model of mi/dataset/parser/zplsc_c.py: the ZPLSC-C binary record        *)
(* parser (ZplscCParser.find_next_record, parse_record, parse_file) run    *)
(* over a finite byte stream.  Bytes are integers 0..255; the stream is    *)
(* a sequence of bytes and the file cursor is the number of bytes read.    *)
(***************************************************************************)
EXTENDS Integers, Sequences, FiniteSets, TLC

------------------------------------------------------------------------------
(* Byte helpers (struct / ctypes big-endian encoding).                     *)

Min(a, b) == IF a < b THEN a ELSE b

\* The Python slice s[a:b] for 0 <= a <= b.
Slice(s, a, b) == SubSeq(s, a + 1, Min(b, Len(s)))

\* n zero bytes: the content of a freshly constructed ctypes structure.
Zeros(n) == [i \in 1..n |-> 0]

\* Big-endian encoding of an unsigned value in w bytes.
RECURSIVE BE(_, _)
BE(v, w) == IF w = 0 THEN << >> ELSE BE(v \div 256, w - 1) \o << v % 256 >>

\* Big-endian decoding of the w bytes of b that follow offset off (0-based).
RECURSIVE UBE(_, _, _)
UBE(b, off, w) ==
    IF w = 0 THEN 0 ELSE UBE(b, off, w - 1) * 256 + b[off + w]

\* Concatenation of a sequence of byte sequences.
RECURSIVE Flatten(_)
Flatten(ss) == IF ss = << >> THEN << >> ELSE Head(ss) \o Flatten(Tail(ss))

------------------------------------------------------------------------------
(* The profile header: AzfpProfileHeader, a BigEndianStructure, _pack_ 1.  *)

\* PROFILE_DATA_DELIMITER = '\xfd\x02'
PROFILE_DATA_DELIMITER == << 253, 2 >>

\* The fields of the header in declaration order: name, width in bytes of
\* one element, number of elements.
AzfpProfileHeaderFields == <<
    << "burst_num", 2, 1 >>, << "serial_num", 2, 1 >>, << "ping_status", 2, 1 >>,
    << "burst_interval", 4, 1 >>,
    << "year", 2, 1 >>, << "month", 2, 1 >>, << "day", 2, 1 >>,
    << "hour", 2, 1 >>, << "minute", 2, 1 >>, << "second", 2, 1 >>,
    << "hundredths", 2, 1 >>,
    << "digitization_rate", 2, 4 >>, << "lockout_index", 2, 4 >>,
    << "num_bins", 2, 4 >>, << "range_samples", 2, 4 >>,
    << "num_pings_profile", 2, 1 >>, << "is_averaged_pings", 2, 1 >>,
    << "num_pings_burst", 2, 1 >>, << "ping_period", 2, 1 >>,
    << "first_ping", 2, 1 >>, << "second_ping", 2, 1 >>,
    << "is_averaged_data", 1, 4 >>,
    << "error_num", 2, 1 >>, << "phase", 1, 1 >>, << "is_overrun", 1, 1 >>,
    << "num_channels", 1, 1 >>, << "gain", 1, 4 >>, << "spare", 1, 1 >>,
    << "pulse_length", 2, 4 >>, << "board_num", 2, 4 >>, << "frequency", 2, 4 >>,
    << "is_sensor_available", 2, 1 >>,
    << "tilt_x", 2, 1 >>, << "tilt_y", 2, 1 >>, << "battery_voltage", 2, 1 >>,
    << "pressure", 2, 1 >>, << "temperature", 2, 1 >>,
    << "ad_channel_6", 2, 1 >>, << "ad_channel_7", 2, 1 >> >>

FieldNames == { AzfpProfileHeaderFields[i][1] : i \in DOMAIN AzfpProfileHeaderFields }

FieldIndex(name) ==
    CHOOSE i \in DOMAIN AzfpProfileHeaderFields : AzfpProfileHeaderFields[i][1] = name

FieldWidth(name) == AzfpProfileHeaderFields[FieldIndex(name)][2]
FieldCount(name) == AzfpProfileHeaderFields[FieldIndex(name)][3]

\* The layout without _pack_: every field starts at a multiple of the width
\* of its elements.
RECURSIVE SizeUpTo_Aligned(_)
SizeUpTo_Aligned(i) ==
    IF i = 0 THEN 0
    ELSE LET w == AzfpProfileHeaderFields[i][2]
         IN  ((SizeUpTo_Aligned(i - 1) + w - 1) \div w) * w
             + w * AzfpProfileHeaderFields[i][3]

\* With _pack_ = 1 a field starts where the previous one ends.
RECURSIVE SizeUpTo(_)
SizeUpTo(i) ==
    IF i = 0 THEN 0
    ELSE SizeUpTo(i - 1) + AzfpProfileHeaderFields[i][2] * AzfpProfileHeaderFields[i][3]

\* The byte offsets from the delimiter that the declaration documents.
DocumentedOffsets == <<
    << "burst_num", 2 >>, << "serial_num", 4 >>, << "ping_status", 6 >>,
    << "burst_interval", 8 >>,
    << "year", 12 >>, << "month", 14 >>, << "day", 16 >>, << "hour", 18 >>,
    << "minute", 20 >>, << "second", 22 >>, << "hundredths", 24 >>,
    << "digitization_rate", 26 >>, << "lockout_index", 34 >>,
    << "num_bins", 42 >>, << "range_samples", 50 >>,
    << "num_pings_profile", 58 >>, << "is_averaged_pings", 60 >>,
    << "num_pings_burst", 62 >>, << "ping_period", 64 >>,
    << "first_ping", 66 >>, << "second_ping", 68 >>,
    << "is_averaged_data", 70 >>,
    << "error_num", 74 >>, << "phase", 76 >>, << "is_overrun", 77 >>,
    << "num_channels", 78 >>, << "gain", 79 >>, << "spare", 83 >>,
    << "pulse_length", 84 >>, << "board_num", 92 >>, << "frequency", 100 >>,
    << "is_sensor_available", 108 >>,
    << "tilt_x", 110 >>, << "tilt_y", 112 >>, << "battery_voltage", 114 >>,
    << "pressure", 116 >>, << "temperature", 118 >>,
    << "ad_channel_6", 120 >>, << "ad_channel_7", 122 >> >>

DocumentedOffsetOf ==
    [name \in { DocumentedOffsets[i][1] : i \in DOMAIN DocumentedOffsets } |->
        DocumentedOffsets[CHOOSE i \in DOMAIN DocumentedOffsets :
                              DocumentedOffsets[i][1] = name][2]]

DocumentedOffset(name) == DocumentedOffsetOf[name]

\* Offset of each field from the first header byte (the byte after the
\* delimiter), and the width of its elements.
FieldOffsets == [n \in FieldNames |-> SizeUpTo(FieldIndex(n) - 1)]
FieldWidths == [n \in FieldNames |-> FieldWidth(n)]

FieldOffset(name) == FieldOffsets[name]

\* sizeof(AzfpProfileHeader)
HeaderSize == SizeUpTo(Len(AzfpProfileHeaderFields))

\* Element k (0-based) of field name, read from the structure's buffer b.
Field(b, name, k) ==
    UBE(b, FieldOffset(name) + k * FieldWidths[name], FieldWidths[name])

\* A scalar field read in little-endian order, as a plain (native) Structure
\* would on a little-endian machine.
F_LittleEndian(b, name) ==
    LET w == FieldWidths[name]
        le[k \in 0..w] ==
            IF k = 0 THEN 0 ELSE le[k - 1] * 256 + b[FieldOffset(name) + (w - k) + 1]
    IN  le[w]

\* A scalar field.
F(b, name) == Field(b, name, 0)

------------------------------------------------------------------------------
(* The instrument's side: how a record is laid out in the file.            *)

\* Header field values as the instrument holds them: every field is a
\* tuple of FieldCount elements.
ZeroHeader == [n \in FieldNames |-> [k \in 1..FieldCount(n) |-> 0]]

RECURSIVE EncodeElems(_, _)
EncodeElems(vals, w) ==
    IF vals = << >> THEN << >> ELSE BE(Head(vals), w) \o EncodeElems(Tail(vals), w)

\* The header bytes written for field values hf.
EncodeHeader(hf) ==
    Flatten([i \in DOMAIN AzfpProfileHeaderFields |->
                EncodeElems(hf[AzfpProfileHeaderFields[i][1]],
                            AzfpProfileHeaderFields[i][2])])

------------------------------------------------------------------------------
(* datetime(year, month, day, hour, minute, second, microsecond)           *)

IsLeap(y) == (y % 4 = 0) /\ ((y % 100 # 0) \/ (y % 400 = 0))

DaysInMonth(y, m) ==
    IF m = 2 THEN (IF IsLeap(y) THEN 29 ELSE 28)
    ELSE IF m \in {4, 6, 9, 11} THEN 30 ELSE 31

\* A constructor that does not check the microsecond.
DatetimeValid_NoMicrosecondCheck(y, m, d, hh, mi, ss, us) ==
    /\ y \in 1..9999
    /\ m \in 1..12
    /\ d \in 1..DaysInMonth(y, m)
    /\ hh \in 0..23
    /\ mi \in 0..59
    /\ ss \in 0..59

\* The constructor raises ValueError unless every component is in range.
DatetimeValid(y, m, d, hh, mi, ss, us) ==
    /\ y \in 1..9999
    /\ m \in 1..12
    /\ d \in 1..DaysInMonth(y, m)
    /\ hh \in 0..23
    /\ mi \in 0..59
    /\ ss \in 0..59
    /\ us \in 0..999999

RECURSIVE DaysBeforeMonth(_, _)
DaysBeforeMonth(y, m) ==
    IF m = 1 THEN 0 ELSE DaysBeforeMonth(y, m - 1) + DaysInMonth(y, m - 1)

\* Proleptic Gregorian ordinal of a date (1 for 0001-01-01).
Ordinal(y, m, d) ==
    (y - 1) * 365 + ((y - 1) \div 4) - ((y - 1) \div 100) + ((y - 1) \div 400)
    + DaysBeforeMonth(y, m) + d

\* The difference taken from the Unix epoch instead.
TimedeltaSince1970(y, m, d, hh, mi, ss, us) ==
    [days |-> Ordinal(y, m, d) - Ordinal(1970, 1, 1),
     seconds |-> hh * 3600 + mi * 60 + ss,
     microseconds |-> us]

\* datetime(...) - datetime(1900, 1, 1): a timedelta, held as its normalised
\* fields (days, seconds, microseconds); total_seconds() is
\* days * 86400 + seconds + microseconds / 10^6.
TimedeltaSince1900(y, m, d, hh, mi, ss, us) ==
    [days |-> Ordinal(y, m, d) - Ordinal(1900, 1, 1),
     seconds |-> hh * 3600 + mi * 60 + ss,
     microseconds |-> us]

\* The datetime arguments parse_record takes from the header buffer b.
HeaderDatetimeValid(b) ==
    DatetimeValid(F(b, "year"), F(b, "month"), F(b, "day"), F(b, "hour"),
                  F(b, "minute"), F(b, "second"), F(b, "hundredths") * 10000)

HeaderTimestamp(b) ==
    TimedeltaSince1900(F(b, "year"), F(b, "month"), F(b, "day"), F(b, "hour"),
                       F(b, "minute"), F(b, "second"), F(b, "hundredths") * 10000)

------------------------------------------------------------------------------
(* Input files.  A file is a concatenation of items; an item is either a   *)
(* framed record of the catalogue (possibly cut short) or a run of bytes   *)
(* that belongs to no record.                                              *)

\* Longest file, in items, of the mixed family.
MaxItems == 2
\* Longest run of inserted bytes between two records.
MaxGap == 3

HeaderA ==
    [ZeroHeader EXCEPT
        !["burst_num"] = << 7 >>, !["serial_num"] = << 55080 >>,
        !["year"] = << 2014 >>, !["month"] = << 8 >>, !["day"] = << 17 >>,
        !["hour"] = << 12 >>, !["minute"] = << 55 >>,
        !["num_bins"] = << 2, 0, 3, 1 >>, !["range_samples"] = << 1, 1, 1, 1 >>,
        !["num_pings_profile"] = << 1 >>,
        !["is_averaged_data"] = << 0, 0, 1, 0 >>,
        !["phase"] = << 1 >>, !["num_channels"] = << 1 >>,
        !["frequency"] = << 38, 125, 200, 455 >>,
        !["tilt_x"] = << 300 >>, !["tilt_y"] = << 64770 >>,
        !["battery_voltage"] = << 1201 >>, !["pressure"] = << 17 >>,
        !["temperature"] = << 40000 >>]

HeaderB ==
    [ZeroHeader EXCEPT
        !["burst_num"] = << 64770 >>, !["serial_num"] = << 513 >>,
        !["year"] = << 2016 >>, !["month"] = << 2 >>, !["day"] = << 29 >>,
        !["hour"] = << 23 >>, !["minute"] = << 59 >>, !["second"] = << 59 >>,
        !["hundredths"] = << 99 >>,
        !["num_bins"] = << 1, 1, 0, 0 >>, !["range_samples"] = << 2, 1, 1, 1 >>,
        !["num_pings_profile"] = << 3 >>, !["is_averaged_pings"] = << 1 >>,
        !["is_averaged_data"] = << 1, 0, 0, 0 >>,
        !["phase"] = << 253 >>, !["num_channels"] = << 2 >>,
        !["frequency"] = << 38, 125, 200, 455 >>,
        !["tilt_x"] = << 2 >>, !["tilt_y"] = << 253 >>,
        !["battery_voltage"] = << 65535 >>, !["pressure"] = << 512 >>,
        !["temperature"] = << 1 >>]

\* A record of four channels without ping averaging: two raw counts, a raw
\* channel of no bins, two averaged bins, an averaged channel of no bins.
HeaderC ==
    [HeaderA EXCEPT
        !["burst_num"] = << 8 >>,
        !["num_bins"] = << 2, 0, 2, 0 >>, !["range_samples"] = << 1, 1, 3, 1 >>,
        !["num_pings_profile"] = << 3 >>,
        !["is_averaged_data"] = << 0, 0, 1, 1 >>,
        !["num_channels"] = << 4 >>]

\* Channel contents: A holds two raw counts in its one channel (the second
\* count is the delimiter value); B holds one averaged bin (a 32-bit sum as
\* two 16-bit halves, and an overflow count) and one raw count.
ChansA == << << 100, 64770 >>, << >>, << >>, << >> >>
ChansA2 == << << 65535, 0 >>, << >>, << >>, << >> >>
ChansB ==
    << << [sum |-> [hi |-> 0, lo |-> 200], overflow |-> 1] >>, << 64770 >>,
       << >>, << >> >>
ChansB2 ==
    << << [sum |-> [hi |-> 64770, lo |-> 0], overflow |-> 0] >>, << 7 >>,
       << >>, << >> >>
ChansC ==
    << << 100, 64770 >>, << >>,
       << [sum |-> [hi |-> 1, lo |-> 1], overflow |-> 2],
          [sum |-> [hi |-> 0, lo |-> 2], overflow |-> 0] >>, << >> >>
NoChans == << << >>, << >>, << >>, << >> >>

\* Header A with other values in the per-channel fields of the three slots
\* behind its one channel.
HeaderA2 ==
    [HeaderA EXCEPT
        !["num_bins"] = << 2, 3, 0, 2 >>, !["range_samples"] = << 1, 0, 2, 5 >>,
        !["is_averaged_data"] = << 0, 1, 0, 1 >>,
        !["gain"] = << 0, 1, 2, 3 >>, !["pulse_length"] = << 0, 300, 0, 1000 >>,
        !["frequency"] = << 38, 70, 125, 200 >>]

RECURSIVE EncodeBins(_)
EncodeBins(bins) ==
    IF bins = << >> THEN << >>
    ELSE BE(Head(bins).sum.hi, 2) \o BE(Head(bins).sum.lo, 2) \o EncodeBins(Tail(bins))

\* The bytes of one channel: raw counts as 16-bit values; averaged bins as
\* all the 32-bit sums followed by all the 8-bit overflow counts.
EncodeChannel(averaged, content) ==
    IF averaged
    THEN EncodeBins(content) \o [i \in DOMAIN content |-> content[i].overflow]
    ELSE EncodeElems(content, 2)

\* The body of a record: its channels in ascending order.
EncodeBody(hf, chans) ==
    Flatten([c \in 1..4 |->
        IF c <= hf["num_channels"][1]
        THEN EncodeChannel(hf["is_averaged_data"][c] # 0, chans[c])
        ELSE << >>])

\* The catalogue of records: header fields, channel contents, and how many
\* bytes of delimiter + header + body reach the file (Whole: all of them).
Whole == 2 + HeaderSize + 4 * 5 * 65535

Catalogue == <<
    [hf |-> HeaderA, chans |-> ChansA, take |-> Whole],
    [hf |-> HeaderA, chans |-> ChansA2, take |-> Whole],
    [hf |-> HeaderB, chans |-> ChansB, take |-> Whole],
    [hf |-> HeaderB, chans |-> ChansB2, take |-> Whole],
    [hf |-> [HeaderA EXCEPT !["month"] = << 0 >>], chans |-> ChansA, take |-> Whole],
    [hf |-> [HeaderB EXCEPT !["hundredths"] = << 100 >>], chans |-> ChansB,
     take |-> Whole],
    [hf |-> [HeaderB EXCEPT !["day"] = << 30 >>], chans |-> ChansB, take |-> Whole],
    [hf |-> [HeaderA EXCEPT !["hour"] = << 24 >>], chans |-> ChansA, take |-> Whole],
    [hf |-> [HeaderA EXCEPT !["num_channels"] = << 5 >>,
                            !["num_bins"] = << 0, 0, 0, 0 >>],
     chans |-> NoChans, take |-> Whole],
    [hf |-> HeaderA, chans |-> ChansA, take |-> 2 + HeaderSize + 3],
    [hf |-> HeaderA, chans |-> ChansA, take |-> 2],
    [hf |-> HeaderA, chans |-> ChansA, take |-> 2 + 5],
    [hf |-> HeaderA, chans |-> ChansA, take |-> 2 + 40],
    [hf |-> HeaderA, chans |-> ChansA, take |-> 2 + 121],
    [hf |-> HeaderB, chans |-> ChansB, take |-> 2 + HeaderSize + 4],
    [hf |-> HeaderC, chans |-> ChansC, take |-> Whole],
    [hf |-> HeaderA2, chans |-> ChansA, take |-> Whole] >>

\* A record as the instrument writes it.
WholeRecord(id) ==
    PROFILE_DATA_DELIMITER \o EncodeHeader(Catalogue[id].hf)
        \o EncodeBody(Catalogue[id].hf, Catalogue[id].chans)

\* The bytes a catalogue record puts in the file.
RecordBytes ==
    [id \in DOMAIN Catalogue |-> Slice(WholeRecord(id), 0, Catalogue[id].take)]

Rec(id) == [id |-> id, gap |-> << >>]
Gap(bytes) == [id |-> 0, gap |-> bytes]

ItemBytes(it) == IF it.id = 0 THEN it.gap ELSE RecordBytes[it.id]

FileBytes(its) == Flatten([i \in DOMAIN its |-> ItemBytes(its[i])])

\* The calendar, for the records the instrument writes: the length of each
\* month, and whether the seven date-time fields name a date and a time.
MonthLengths(y) ==
    << 31, IF (y % 4 = 0 /\ y % 100 # 0) \/ y % 400 = 0 THEN 29 ELSE 28,
       31, 30, 31, 30, 31, 31, 30, 31, 30, 31 >>

FieldsDateValid(hf) ==
    /\ hf["year"][1] \in 1..9999
    /\ hf["month"][1] \in 1..12
    /\ hf["day"][1] \in 1..MonthLengths(hf["year"][1])[hf["month"][1]]
    /\ hf["hour"][1] < 24
    /\ hf["minute"][1] < 60
    /\ hf["second"][1] < 60
    /\ hf["hundredths"][1] < 100

\* A record written whole (delimiter, full header, body) whose channel
\* contents have the bin counts its header declares, for at most 4 channels.
Framed(it) ==
    /\ it.id # 0
    /\ Catalogue[it.id].take = Whole
    /\ Catalogue[it.id].hf["num_channels"][1] \in 0..4
    /\ \A c \in 1..Catalogue[it.id].hf["num_channels"][1] :
          Len(Catalogue[it.id].chans[c]) = Catalogue[it.id].hf["num_bins"][c]

\* A well-formed record: framed, 1..4 channels, valid date and time.
WellFormed(it) ==
    /\ Framed(it)
    /\ Catalogue[it.id].hf["num_channels"][1] \in 1..4
    /\ FieldsDateValid(Catalogue[it.id].hf)

GapAlphabet == { 0, 2, 253 }

HasDelimiter(bytes) ==
    \E i \in 1..(Len(bytes) - 1) : SubSeq(bytes, i, i + 1) = PROFILE_DATA_DELIMITER

\* Runs of 1..MaxGap bytes that hold no delimiter.
Gaps ==
    { g \in UNION { [1..n -> GapAlphabet] : n \in 1..MaxGap } : ~HasDelimiter(g) }

MixItems == { Rec(id) : id \in DOMAIN Catalogue } \cup { Gap(<< 0 >>) }

MixFiles == UNION { [1..n -> MixItems] : n \in 0..MaxItems }

GoodItems == { it \in MixItems : it.id # 0 /\ WellFormed(it) }

\* Two well-formed records with one item, or a run of inserted bytes,
\* between them.
SandwichFiles ==
    { << a, x, b >> : a \in GoodItems,
                      x \in MixItems \cup { Gap(g) : g \in Gaps },
                      b \in GoodItems }

Files == MixFiles \cup SandwichFiles

------------------------------------------------------------------------------
(* The parser's state.                                                      *)

VARIABLES
    items,           \* the items the file was written from (never read by the parser)
    stream,          \* the bytes of the file behind _stream_handle
    pos,             \* the cursor of _stream_handle
    pc,              \* where parse_file stands
    ph,              \* self.ph: the buffer of the profile header (<< >>: None)
    delimiter,       \* find_next_record's local window
    good_delimiter,  \* find_next_record's local flag
    chan,            \* parse_record's loop index
    chan_values,     \* parse_record's local list of per-channel values
    record_buffer,   \* self._record_buffer: the particles
    callbacks,       \* the calls of self._exception_callback, in order
    raised,          \* the exception that left parse_file, "" when none
    fnr,             \* the last call of find_next_record: where it started, what it reported
    rec,             \* the last header read: where it ended, what it declared, what had been output before it
    hdr_reads,       \* number of header reads that returned at least one byte
    spans,           \* number of find_next_record calls that passed over bytes
    DS,              \* ZplscCCalibrationCoefficients.DS: the list every instance's self.cc shares
    other,           \* a second parser instance, while the first one runs (<< >>: none)
    alone,           \* what an instance produced among the steps of the other one
    lines,           \* the lines of the text file behind OptaaDjCsppParser's _stream_handle
    outcomes,        \* what OptaaDjCsppParser.parse_file did with each line it took, in order
    particle_data_handler  \* the handler process() is given (<< >>: no driver runs)

vars == << items, stream, pos, pc, ph, delimiter, good_delimiter, chan, chan_values,
           record_buffer, callbacks, raised, fnr, rec, hdr_reads, spans,
           DS, other, alone, lines, outcomes, particle_data_handler >>

\* file.read(n) at cursor p: the next n bytes, or fewer at end of file.
Read(p, n) == Slice(stream, p, p + n)

\* One header structure used for every record, never cleared.
NewHeader_Reused == IF ph = << >> THEN Zeros(HeaderSize) ELSE ph

\* AzfpProfileHeader(): a zero-filled structure.
NewHeader == Zeros(HeaderSize)

\* The class attribute DS after the four appends of lines 181-190.
ZplscCCalibrationCoefficients ==
    << "2.280000038445e-2", "2.280000038445e-2", "2.250000089407e-2",
       "2.300000004470e-2" >>

\* Nothing kept of an interleaved run.
NotAlone == [ran |-> FALSE, mixed |-> FALSE, finished |-> FALSE,
             record_buffer |-> << >>, callbacks |-> << >>, raised |-> ""]

\* ZplscCParser(config, stream_handle, exception_callback) on the file of
\* its items, before parse_file is called.
InitParser ==
    /\ stream = FileBytes(items)
    /\ pos = 0
    /\ pc = "start"
    /\ ph = << >>
    /\ delimiter = << >>
    /\ good_delimiter = TRUE
    /\ chan = 0
    /\ chan_values = << << >>, << >>, << >>, << >> >>
    /\ record_buffer = << >>
    /\ callbacks = << >>
    /\ raised = ""
    /\ fnr = [start |-> 0, end |-> 0, found |-> FALSE, calls |-> 0, returned |-> FALSE]
    /\ rec = [short |-> FALSE, calls |-> 0, buffer |-> << >>, body |-> 0,
              declared |-> 0]
    /\ hdr_reads = 0
    /\ spans = 0

\* No text parser and no driver beside the parser.
NoTextFile ==
    /\ lines = << >>
    /\ outcomes = << >>
    /\ particle_data_handler = << >>

\* One parser and its file.
Init ==
    /\ items \in Files
    /\ InitParser
    /\ DS = ZplscCCalibrationCoefficients
    /\ other = << >>
    /\ alone = NotAlone
    /\ NoTextFile

------------------------------------------------------------------------------
(* find_next_record                                                         *)

\* parse_file, line 298: the first header instance, then the first search.
ParseFileStart ==
    /\ pc = "start"
    /\ ph' = NewHeader
    /\ pc' = "find"
    /\ UNCHANGED << lines, outcomes, particle_data_handler,
                    DS, other, alone, items, stream, pos, delimiter, good_delimiter, chan, chan_values,
                    record_buffer, callbacks, raised, fnr, rec, hdr_reads, spans >>

\* Lines 206-207: good_delimiter = True; delimiter = read(2).
FindRead ==
    /\ pc = "find"
    /\ good_delimiter' = TRUE
    /\ delimiter' = Read(pos, 2)
    /\ pos' = pos + Len(delimiter')
    /\ fnr' = [start |-> pos, end |-> pos, found |-> FALSE, calls |-> Len(callbacks),
               returned |-> FALSE]
    /\ pc' = "scan"
    /\ UNCHANGED << lines, outcomes, particle_data_handler,
                    DS, other, alone, items, stream, ph, chan, chan_values, record_buffer, callbacks,
                    raised, rec, hdr_reads, spans >>

\* The loop test of line 208.
Searching == delimiter \notin { PROFILE_DATA_DELIMITER, << >> }

\* A loop that reports every byte it passes over.
FindShift_ReportsEachByte ==
    /\ pc = "scan"
    /\ Searching
    /\ good_delimiter' = FALSE
    /\ delimiter' = Slice(delimiter, 1, 2) \o Read(pos, 1)
    /\ pos' = pos + Len(Read(pos, 1))
    /\ callbacks' = Append(callbacks, "Invalid record delimiter found")
    /\ UNCHANGED << lines, outcomes, particle_data_handler,
                    DS, other, alone, items, stream, pc, ph, chan, chan_values, record_buffer,
                    raised, fnr, rec, hdr_reads, spans >>

\* A loop that replaces its window by the next two bytes.
FindShift_ByPairs ==
    /\ pc = "scan"
    /\ Searching
    /\ good_delimiter' = FALSE
    /\ delimiter' = Read(pos, 2)
    /\ pos' = pos + Len(Read(pos, 2))
    /\ UNCHANGED << lines, outcomes, particle_data_handler,
                    DS, other, alone, items, stream, pc, ph, chan, chan_values,
                    record_buffer, callbacks, raised, fnr, rec, hdr_reads, spans >>

\* A loop that keeps its window when the stream gives no further byte.
FindShift_KeepsWindowAtEnd ==
    /\ pc = "scan"
    /\ Searching
    /\ good_delimiter' = FALSE
    /\ delimiter' = (IF Read(pos, 1) = << >> THEN delimiter
                     ELSE Slice(delimiter, 1, 2) \o Read(pos, 1))
    /\ pos' = pos + Len(Read(pos, 1))
    /\ UNCHANGED << lines, outcomes, particle_data_handler,
                    DS, other, alone, items, stream, pc, ph, chan, chan_values,
                    record_buffer, callbacks, raised, fnr, rec, hdr_reads, spans >>

\* Lines 209-211: one turn of the loop shifts the window by one byte.
FindShift ==
    /\ pc = "scan"
    /\ Searching
    /\ good_delimiter' = FALSE
    /\ delimiter' = Slice(delimiter, 1, 2) \o Read(pos, 1)
    /\ pos' = pos + Len(Read(pos, 1))
    /\ UNCHANGED << lines, outcomes, particle_data_handler,
                    DS, other, alone, items, stream, pc, ph, chan, chan_values, record_buffer, callbacks,
                    raised, fnr, rec, hdr_reads, spans >>

\* A report that does not look at good_delimiter.
FindReport_Always == << "Invalid record delimiter found" >>

\* What find_next_record reports when its loop has ended (lines 213-214).
FindReport == IF good_delimiter THEN << >> ELSE << "Invalid record delimiter found" >>

\* Lines 213-214 and the return to parse_file's header read.
FindReturn ==
    /\ pc = "scan"
    /\ ~Searching
    /\ callbacks' = callbacks \o FindReport
    /\ fnr' = [fnr EXCEPT !.end = pos,
                          !.found = (delimiter = PROFILE_DATA_DELIMITER),
                          !.calls = Len(callbacks') - fnr.calls,
                          !.returned = TRUE]
    /\ spans' = spans + (IF pos - fnr.start > Len(delimiter) THEN 1 ELSE 0)
    /\ pc' = "header"
    /\ UNCHANGED << lines, outcomes, particle_data_handler,
                    DS, other, alone, items, stream, pos, ph, delimiter, good_delimiter, chan, chan_values,
                    record_buffer, raised, rec, hdr_reads >>

------------------------------------------------------------------------------
(* parse_file's loop and parse_record                                       *)

\* range(self.ph.num_channels)
\* A channel loop over every slot of the per-channel arrays.
NumChannels_AllSlots == FieldCount("num_bins")

\* Line 224: range(self.ph.num_channels).
NumChannels == F(ph, "num_channels")

\* The four slots of the header's per-channel arrays (c_ushort*4, c_ubyte*4).
ChannelSlots == 4

ChanBins(c) == Field(ph, "num_bins", c)
ChanAveraged(c) == Field(ph, "is_averaged_data", c) # 0

\* The bytes the channel reads of parse_record ask for with this header.
DeclaredSize ==
    LET n == Min(NumChannels, ChannelSlots)
        size[c \in 0..n] ==
            IF c = 0 THEN 0
            ELSE size[c - 1]
                 + ChanBins(c - 1) * (IF ChanAveraged(c - 1) THEN 5 ELSE 2)
    IN  size[n]

\* The loop test of line 300: readinto returns the number of bytes it
\* stored, and the loop runs while that number is true, that is non-zero.
HeaderWasRead(n) == n # 0

\* Line 300: readinto(self.ph) stores the bytes it obtains at the start of
\* the structure's buffer and leaves the rest of the buffer as it was.
ReadHeader ==
    /\ pc = "header"
    /\ LET data == Read(pos, HeaderSize) IN
        /\ ph' = data \o Slice(ph, Len(data), HeaderSize)
        /\ pos' = pos + Len(data)
        /\ IF HeaderWasRead(Len(data))
           THEN /\ pc' = "chan"
                /\ hdr_reads' = hdr_reads + 1
                /\ rec' = [short |-> DeclaredSize' > Len(stream) - pos',
                           calls |-> Len(callbacks), buffer |-> record_buffer,
                           body |-> pos', declared |-> DeclaredSize']
           ELSE /\ pc' = "done"
                /\ UNCHANGED << hdr_reads, rec >>
    \* Lines 220-221 and the start of the for loop.
    /\ chan' = 0
    /\ chan_values' = << << >>, << >>, << >>, << >> >>
    /\ UNCHANGED << lines, outcomes, particle_data_handler,
                    DS, other, alone, items, stream, delimiter, good_delimiter, record_buffer, callbacks,
                    raised, fnr, spans >>

\* data_struct.size for '>nI' or '>nH'.
ChanDataSize(c) == ChanBins(c) * (IF ChanAveraged(c) THEN 4 ELSE 2)

\* Channel data taken from behind a two-byte length field.
ChanData_AfterLengthField(c) == Read(pos + 2, ChanDataSize(c))

\* Line 235, and line 244 for an averaged channel whose sums unpacked.
ChanData(c) == Read(pos, ChanDataSize(c))
ChanOverflow(c) ==
    IF ChanAveraged(c) /\ Len(ChanData(c)) = ChanDataSize(c)
    THEN Read(pos + ChanDataSize(c), ChanBins(c))
    ELSE << >>

\* An unpack that accepts raw data of any length.
ChanUnpacks_LenientRaw(c) ==
    ChanAveraged(c) =>
        /\ Len(ChanData(c)) = ChanDataSize(c)
        /\ Len(ChanOverflow(c)) = ChanBins(c)

\* An unpack that fails on a format of no elements.
ChanUnpacks_RejectsEmpty(c) ==
    /\ ChanBins(c) > 0
    /\ Len(ChanData(c)) = ChanDataSize(c)
    /\ ChanAveraged(c) => Len(ChanOverflow(c)) = ChanBins(c)

\* struct.unpack raises struct.error unless the data has the format's size.
ChanUnpacks(c) ==
    /\ Len(ChanData(c)) = ChanDataSize(c)
    /\ ChanAveraged(c) => Len(ChanOverflow(c)) = ChanBins(c)

\* '<nH': the counts read in little-endian order.
UnpackH_LittleEndian(data) ==
    [i \in 1..(Len(data) \div 2) |-> data[2 * i] * 256 + data[2 * i - 1]]

\* '>nH': n unsigned 16-bit counts.
UnpackH(data) == [i \in 1..(Len(data) \div 2) |-> UBE(data, 2 * (i - 1), 2)]

\* '>nI': n unsigned 32-bit sums, each held as its two 16-bit halves.
UnpackI(data) ==
    [i \in 1..(Len(data) \div 4) |->
        [hi |-> UBE(data, 4 * (i - 1), 2), lo |-> UBE(data, 4 * (i - 1) + 2, 2)]]

\* A divisor taken from the channel's bin count.
Divisor_FromNumBins(c) ==
    IF F(ph, "is_averaged_pings") # 0
    THEN F(ph, "num_pings_profile") * Field(ph, "num_bins", c)
    ELSE Field(ph, "num_bins", c)

\* Lines 247-250.
Divisor(c) ==
    IF F(ph, "is_averaged_pings") # 0
    THEN F(ph, "num_pings_profile") * Field(ph, "range_samples", c)
    ELSE Field(ph, "range_samples", c)

\* Integers of up to 48 bits, held as three 16-bit limbs << l2, l1, l0 >>
\* (the int64 elements of the numpy arrays of lines 252-255).
LimbBase == 65536

\* The limbs of n2 * 2^32 + n1 * 2^16 + n0, carries propagated.
Limbs(n2, n1, n0) ==
    LET t1 == n1 + (n0 \div LimbBase)
    IN  << n2 + (t1 \div LimbBase), t1 % LimbBase, n0 % LimbBase >>

\* Integer array / int (Python 2, no true division): the floored quotient;
\* numpy gives 0 for an integer division by zero.
LimbsDiv(n, d) ==
    IF d = 0 THEN << 0, 0, 0 >>
    ELSE LET t1 == (n[1] % d) * LimbBase + n[2]
             t0 == (t1 % d) * LimbBase + n[3]
         IN  Limbs(n[1] \div d, t1 \div d, t0 \div d)

\* Line 255: (linear_sum_values + (linear_overflow_values * 0xFFFFFFFF)) / divisor,
\* with 0xFFFFFFFF = 65535 * 2^16 + 65535.
LinearValue(sum, overflow, divisor) ==
    LimbsDiv(Limbs(0, sum.hi + overflow * 65535, sum.lo + overflow * 65535), divisor)

\* Line 256: (np.log10(values) - 2.5) * (8 * 0xFFFF) * self.cc.DS[chan] for
\* one element.  The float is kept by its kind and its operands: log10 of 0
\* is minus infinity, which the subtraction and the positive factors leave
\* infinite; log10 of a positive integer is finite.
Log10Scaled(linear, ds) ==
    [kind |-> IF linear = << 0, 0, 0 >> THEN "-inf" ELSE "finite",
     log10_of |-> linear, ds |-> ds]

\* An array that keeps its infinite elements.
ClampInf_Never(value) == value

\* Line 257: values[np.isinf(values)] = 0, for one element.
ClampInf(value) ==
    IF value.kind \in {"-inf", "inf"}
    THEN [kind |-> "zero", log10_of |-> value.log10_of, ds |-> value.ds]
    ELSE value

\* Lines 252-258 for one bin: the linear value of line 255, and the value of
\* lines 256-257 computed from it.
AveragedValue(sum, overflow, c) ==
    [sum |-> sum, overflow |-> overflow, divisor |-> Divisor(c), ds |-> DS[c + 1],
     linear |-> LinearValue(sum, overflow, Divisor(c)),
     value |-> ClampInf(Log10Scaled(LinearValue(sum, overflow, Divisor(c)),
                                    DS[c + 1]))]

\* A decoding that divides the counts of a raw channel by the divisor too.
ChanValues_ScalesRaw(c) ==
    IF ChanAveraged(c)
    THEN [i \in 1..ChanBins(c) |->
            AveragedValue(UnpackI(ChanData(c))[i], ChanOverflow(c)[i], c)]
    ELSE [i \in 1..ChanBins(c) |->
            UnpackH(ChanData(c))[i] \div (IF Divisor(c) = 0 THEN 1 ELSE Divisor(c))]

\* chan_values[chan] when the channel has been decoded.
ChanValues(c) ==
    IF ChanAveraged(c)
    THEN [i \in 1..ChanBins(c) |->
            AveragedValue(UnpackI(ChanData(c))[i], ChanOverflow(c)[i], c)]
    ELSE UnpackH(ChanData(c))

\* The except clauses of lines 315-320, then lines 323-324: one report, a
\* new header instance, and the search for the next record.
DropRecord(message) ==
    /\ callbacks' = Append(callbacks, message)
    /\ ph' = NewHeader
    /\ pc' = "find"

\* One turn of the for loop of line 224.
ParseChannel ==
    /\ pc = "chan"
    /\ chan < NumChannels
    /\ IF chan >= ChannelSlots
       THEN \* self.ph.num_bins[chan]: IndexError, which no except clause names.
            /\ pc' = "raised"
            /\ raised' = "IndexError"
            /\ UNCHANGED << pos, ph, chan, chan_values, callbacks >>
       ELSE IF ~ChanUnpacks(chan)
       THEN /\ pos' = pos + Len(ChanData(chan)) + Len(ChanOverflow(chan))
            /\ DropRecord("Unpacking the data from the data structure")
            /\ UNCHANGED << chan, chan_values, raised >>
       ELSE /\ pos' = pos + Len(ChanData(chan)) + Len(ChanOverflow(chan))
            /\ chan_values' = [chan_values EXCEPT ![chan + 1] = ChanValues(chan)]
            /\ chan' = chan + 1
            /\ UNCHANGED << pc, ph, callbacks, raised >>
    /\ UNCHANGED << lines, outcomes, particle_data_handler,
                    DS, other, alone, items, stream, delimiter, good_delimiter, record_buffer, fnr,
                    rec, hdr_reads, spans >>

\* compute_backscatter: the echogram helper's result for the channel values
\* it is handed.
compute_backscatter(values) == [backscatter_of |-> values]

\* Lines 270-293, and _extract_sample's particle for it.
Particle ==
    [timestamp |-> HeaderTimestamp(ph),
     serial_number |-> F(ph, "serial_num"),
     phase |-> F(ph, "phase"),
     burst_number |-> F(ph, "burst_num"),
     tilt_x |-> F(ph, "tilt_x"),
     tilt_y |-> F(ph, "tilt_y"),
     battery_voltage |-> F(ph, "battery_voltage"),
     pressure |-> F(ph, "pressure"),
     temperature |-> F(ph, "temperature"),
     is_averaged_data |-> [c \in 1..ChannelSlots |-> Field(ph, "is_averaged_data", c - 1)],
     frequency |-> [c \in 1..ChannelSlots |-> Field(ph, "frequency", c - 1)],
     values |-> compute_backscatter(chan_values)]

\* Lines 260-295 and 306-310, after the last channel: the timestamp, the
\* particle, and its place in the record buffer; then lines 323-324.  The
\* echogram helpers and _extract_sample are taken to return their results.
ParseFinish ==
    /\ pc = "chan"
    /\ chan >= NumChannels
    /\ IF HeaderDatetimeValid(ph)
       THEN /\ record_buffer' = Append(record_buffer, Particle)
            /\ ph' = NewHeader
            /\ pc' = "find"
            /\ UNCHANGED callbacks
       ELSE /\ DropRecord("Transition timestamp has invalid format")
            /\ UNCHANGED record_buffer
    /\ UNCHANGED << lines, outcomes, particle_data_handler,
                    DS, other, alone, items, stream, pos, delimiter, good_delimiter, chan, chan_values,
                    raised, fnr, rec, hdr_reads, spans >>

------------------------------------------------------------------------------
(* Stream I/O failures: any read of the stream may raise IOError.           *)

\* A read inside the try block of lines 301-310 (the channel reads of
\* parse_record): lines 312-314 report it and return.
ReadFailsInRecord ==
    /\ pc = "chan"
    /\ chan < NumChannels
    /\ chan < ChannelSlots
    /\ callbacks' = Append(callbacks, "Reading stream handle")
    /\ pc' = "halted"
    /\ UNCHANGED << lines, outcomes, particle_data_handler,
                    DS, other, alone, items, stream, pos, ph, delimiter, good_delimiter, chan, chan_values,
                    record_buffer, raised, fnr, rec, hdr_reads, spans >>

\* A read outside the try block: the reads of find_next_record (lines 207,
\* 211, called from lines 299 and 324) and the header read of line 300.
ReadFailsOutsideTry ==
    /\ \/ pc = "find"
       \/ pc = "scan" /\ Searching
       \/ pc = "header"
    /\ pc' = "raised"
    /\ raised' = "IOError"
    /\ UNCHANGED << lines, outcomes, particle_data_handler,
                    DS, other, alone, items, stream, pos, ph, delimiter, good_delimiter, chan, chan_values,
                    record_buffer, callbacks, fnr, rec, hdr_reads, spans >>

Next ==
    \/ ParseFileStart
    \/ FindRead
    \/ FindShift
    \/ FindReturn
    \/ ReadHeader
    \/ ParseChannel
    \/ ParseFinish
    \/ ReadFailsInRecord
    \/ ReadFailsOutsideTry

Spec == Init /\ [][Next]_vars

\* The steps of the parser's own code: the interpreter runs the next
\* statement as long as there is one.
ParserStep ==
    \/ ParseFileStart
    \/ FindRead
    \/ FindShift
    \/ FindReturn
    \/ ReadHeader
    \/ ParseChannel
    \/ ParseFinish

\* The files on which termination is studied: the empty file, every item alone
\* (whole, cut short, undecodable), and a well-formed record with a run of
\* bytes that belong to no record before it or after it.
TermFiles ==
    { << >> } \cup { << x >> : x \in MixItems }
        \cup { << Gap(g), Rec(3) >> : g \in Gaps }
        \cup { << Rec(16), Gap(g) >> : g \in Gaps }

TermInit ==
    /\ items \in TermFiles
    /\ InitParser
    /\ DS = ZplscCCalibrationCoefficients
    /\ other = << >>
    /\ alone = NotAlone
    /\ NoTextFile

FairSpec == TermInit /\ [][Next]_vars /\ WF_vars(ParserStep)

------------------------------------------------------------------------------
(* Two parser instances on two files, their steps interleaved.  The        *)
(* variables above hold the instance that is running; the other instance   *)
(* waits in `other` with its own stream, cursor, header, locals and        *)
(* outputs.  Only the class attribute DS belongs to both.                  *)

\* The running instance: its attributes, the locals of its calls, and what
\* is recorded about it.
Instance ==
    [items |-> items, stream |-> stream, pos |-> pos, pc |-> pc, ph |-> ph,
     delimiter |-> delimiter, good_delimiter |-> good_delimiter, chan |-> chan,
     chan_values |-> chan_values, record_buffer |-> record_buffer,
     callbacks |-> callbacks, raised |-> raised, fnr |-> fnr, rec |-> rec,
     hdr_reads |-> hdr_reads, spans |-> spans]

\* A parser constructed on the file of items its (lines 195-203).
NewParser(its) ==
    [items |-> its, stream |-> FileBytes(its), pos |-> 0, pc |-> "start", ph |-> << >>,
     delimiter |-> << >>, good_delimiter |-> TRUE, chan |-> 0,
     chan_values |-> << << >>, << >>, << >>, << >> >>, record_buffer |-> << >>,
     callbacks |-> << >>, raised |-> "",
     fnr |-> [start |-> 0, end |-> 0, found |-> FALSE, calls |-> 0, returned |-> FALSE],
     rec |-> [short |-> FALSE, calls |-> 0, buffer |-> << >>, body |-> 0,
              declared |-> 0],
     hdr_reads |-> 0, spans |-> 0]

\* A header kept in one place for all instances, once one was constructed.
OwnHeader_ClassLevel(o) == IF ph = << >> THEN o.ph ELSE ph

\* self.ph: an attribute of the instance.
OwnHeader(o) == o.ph

\* Instance o runs on.
Resume(o) ==
    /\ items' = o.items
    /\ stream' = o.stream
    /\ pos' = o.pos
    /\ pc' = o.pc
    /\ ph' = OwnHeader(o)
    /\ delimiter' = o.delimiter
    /\ good_delimiter' = o.good_delimiter
    /\ chan' = o.chan
    /\ chan_values' = o.chan_values
    /\ record_buffer' = o.record_buffer
    /\ callbacks' = o.callbacks
    /\ raised' = o.raised
    /\ fnr' = o.fnr
    /\ rec' = o.rec
    /\ hdr_reads' = o.hdr_reads
    /\ spans' = o.spans

Terminated(o) == o.pc \in { "done", "halted", "raised" }
InProgress(o) == o.pc \notin { "start", "done", "halted", "raised" }

\* The scheduler lets the other instance run.
Switch ==
    /\ other # << >>
    /\ ~alone.ran
    /\ other' = Instance
    /\ Resume(other)
    /\ alone' = [alone EXCEPT !.mixed = @ \/ (InProgress(Instance) /\ InProgress(other))]
    /\ UNCHANGED << DS, lines, outcomes, particle_data_handler >>

\* Both instances have ended: what the running one produced is kept, and a
\* new parser is run on the same file with no other instance beside it.
StartAlone ==
    /\ other # << >>
    /\ ~alone.ran
    /\ Terminated(Instance) /\ Terminated(other)
    /\ alone' = [ran |-> TRUE, mixed |-> alone.mixed,
                 finished |-> (pc = "done" \/ raised = "IndexError"),
                 record_buffer |-> record_buffer, callbacks |-> callbacks,
                 raised |-> raised]
    /\ Resume(NewParser(items))
    /\ UNCHANGED << DS, other, lines, outcomes, particle_data_handler >>

\* The files of the two instances: averaged records; raw records around a
\* byte that belongs to no record; a record with an invalid date; a record
\* cut short in its body.
PairFiles == <<
    << Rec(3), Rec(16) >>,
    << Rec(1), Gap(<< 0 >>), Rec(4) >>,
    << Rec(6), Rec(2) >>,
    << Rec(16), Rec(15) >> >>

PairInit ==
    /\ \E i, j \in DOMAIN PairFiles :
          /\ i < j
          /\ items = PairFiles[i]
          /\ other = NewParser(PairFiles[j])
    /\ InitParser
    /\ DS = ZplscCCalibrationCoefficients
    /\ alone = NotAlone
    /\ NoTextFile

PairNext ==
    \/ Next
    \/ Switch
    \/ StartAlone

PairSpec == PairInit /\ [][PairNext]_vars

------------------------------------------------------------------------------
\* OptaaDjCsppParser (optaa_dj_cspp.py): a text file taken line by line.
\*
\* A line is its tab-separated fields, the number of tabs behind the last
\* field, and whether a line end closes it.  A field is a float, a 'y'/'n'
\* flag, a run of decimal digits (kept digit by digit), a header part
\* ("name: value") or other text.
Float == [kind |-> "float", digits |-> << >>]
YOrN == [kind |-> "yn", digits |-> << >>]
Digits(ds) == [kind |-> "digits", digits |-> ds]
Text == [kind |-> "text", digits |-> << >>]
HeaderPart == [kind |-> "header", digits |-> << >>]

\* The patterns of the regular expressions, field by field; every group of
\* BEGIN_REGEX is followed by TAB_REGEX.  FLOAT_REGEX, INT_REGEX, Y_OR_N_REGEX,
\* END_OF_LINE_REGEX and HEADER_PART_MATCHER are imported: a run of decimal
\* digits of any length is taken to be an integer.
FieldMatches(regex, field) ==
    CASE regex = "FLOAT_REGEX" -> field.kind = "float"
      [] regex = "Y_OR_N_REGEX" -> field.kind = "yn"
      [] regex = "INT_REGEX" -> field.kind = "digits"
      [] regex = "\\d+" -> field.kind = "digits"
      [] OTHER -> FALSE

\* Lines 38-44.
BEGIN_REGEX ==
    << "FLOAT_REGEX", "FLOAT_REGEX", "Y_OR_N_REGEX", "INT_REGEX", "FLOAT_REGEX",
       "INT_REGEX" >>

\* Line 45 and line 352: BEGIN_MATCHER.match(line) is not None.
BEGIN_MATCHER(line) ==
    /\ Len(line.fields) >= Len(BEGIN_REGEX)
    /\ \A i \in DOMAIN BEGIN_REGEX : FieldMatches(BEGIN_REGEX[i], line.fields[i])
    /\ Len(line.fields) > Len(BEGIN_REGEX) \/ line.tabs >= 1

\* Line 356: match.group(DataMatchesGroupNumber.NUM_WAVELENGTHS), the text of
\* the sixth field.
NUM_WAVELENGTHS == 6
NumWavelengths(line) == line.fields[NUM_WAVELENGTHS].digits

\* Lines 311-340: the pattern behind the prefix, as a list of field patterns
\* and of arrays r'((?:\d+\t){%s})' % count, closed by r'\t*' and the line end.
_build_data_regex(regex, count) ==
    [begin |-> regex,
     rest |-> << [re |-> "INT_REGEX"], [re |-> "array", count |-> count],
                 [re |-> "INT_REGEX"], [re |-> "array", count |-> count],
                 [re |-> "INT_REGEX"], [re |-> "array", count |-> count],
                 [re |-> "INT_REGEX"], [re |-> "array", count |-> count],
                 [re |-> "INT_REGEX"], [re |-> "INT_REGEX"], [re |-> "INT_REGEX"] >>]

\* The digits of a number without its leading zeros.
RECURSIVE Significant(_)
Significant(ds) ==
    IF ds # << >> /\ Head(ds) = 0 THEN Significant(Tail(ds)) ELSE ds

RECURSIVE DecimalValue(_)
DecimalValue(ds) ==
    IF ds = << >> THEN 0 ELSE 10 * DecimalValue(SubSeq(ds, 1, Len(ds) - 1)) + ds[Len(ds)]

\* a >= b for two numbers given by their significant digits.
RECURSIVE DigitsAtLeast(_, _)
DigitsAtLeast(a, b) ==
    IF Len(a) # Len(b) THEN Len(a) > Len(b)
    ELSE IF a = << >> THEN TRUE
    ELSE IF Head(a) # Head(b) THEN Head(a) > Head(b)
    ELSE DigitsAtLeast(Tail(a), Tail(b))

\* The largest repetition count the re module compiles is below MAXREPEAT,
\* 4294967295 (65535 on builds with 16-bit pattern codes).
MAXREPEAT == << 4, 2, 9, 4, 9, 6, 7, 2, 9, 5 >>

\* re.match(data_regex, line) compiles the pattern first: a repetition
\* {count} with count >= MAXREPEAT raises OverflowError.
RegexRaises(data_regex) ==
    \E i \in DOMAIN data_regex.rest :
        /\ data_regex.rest[i].re = "array"
        /\ DigitsAtLeast(Significant(data_regex.rest[i].count), MAXREPEAT)

\* The longest run of digits whose value is computed: a line has fewer fields
\* than any longer repetition count asks for.
MaxCountDigits == 4

\* The field patterns of a compiled pattern, arrays unrolled.
RECURSIVE Unrolled(_)
Unrolled(rest) ==
    IF rest = << >> THEN << >>
    ELSE (IF Head(rest).re = "array"
          THEN [i \in 1..DecimalValue(Head(rest).count) |-> "\\d+"]
          ELSE << Head(rest).re >>) \o Unrolled(Tail(rest))

\* Line 360: re.match(data_regex, line) is not None, for a pattern that
\* compiles.  The line read from the file ends with its line end, the last
\* line of a file possibly without one.
DataRegexMatches(data_regex, line) ==
    /\ \A i \in DOMAIN data_regex.begin :
          /\ i <= Len(line.fields)
          /\ FieldMatches(data_regex.begin[i], line.fields[i])
    /\ \A i \in DOMAIN data_regex.rest :
          data_regex.rest[i].re = "array" =>
              Len(Significant(data_regex.rest[i].count)) <= MaxCountDigits
    /\ LET pattern == Unrolled(data_regex.rest)
           behind == SubSeq(line.fields, Len(data_regex.begin) + 1, Len(line.fields))
       IN  /\ Len(behind) = Len(pattern)
           /\ \A i \in DOMAIN pattern : FieldMatches(pattern[i], behind[i])
    /\ line.eol

\* HEADER_PART_MATCHER.match(line) is not None.
HEADER_PART_MATCHER(line) ==
    Len(line.fields) >= 1 /\ line.fields[1].kind = "header"

\* The input lines.
Wavelengths == << 2 >>
NoWavelengths == << 0 >>
OneWavelength == << 1 >>
ManyWavelengths == << 9, 9, 9, 9, 9, 9, 9, 9, 9, 9, 9 >>

Counts(n) == [i \in 1..n |-> Digits(<< 5, i >>)]
Prefix(count) == << Float, Float, YOrN, Digits(<< 1, 3, 7 >>), Float, Digits(count) >>
DataFields(count, sizes) ==
    Prefix(count)
        \o << Digits(<< 7 >>) >> \o Counts(sizes[1])
        \o << Digits(<< 8 >>) >> \o Counts(sizes[2])
        \o << Digits(<< 9 >>) >> \o Counts(sizes[3])
        \o << Digits(<< 6 >>) >> \o Counts(sizes[4])
        \o << Digits(<< 2, 0 >>), Digits(<< 2, 1 >>), Digits(<< 2, 2 >>) >>

\* kind: what the line is; the parser reads fields, tabs and eol only.
LineCatalogue == <<
    [kind |-> "data", fields |-> DataFields(Wavelengths, << 2, 2, 2, 2 >>),
     tabs |-> 0, eol |-> TRUE],
    [kind |-> "data", fields |-> DataFields(NoWavelengths, << 0, 0, 0, 0 >>),
     tabs |-> 2, eol |-> TRUE],
    [kind |-> "short array", fields |-> DataFields(Wavelengths, << 2, 2, 2, 1 >>),
     tabs |-> 0, eol |-> TRUE],
    [kind |-> "long arrays", fields |-> DataFields(OneWavelength, << 2, 2, 2, 2 >>),
     tabs |-> 0, eol |-> TRUE],
    [kind |-> "bad entry",
     fields |-> [DataFields(Wavelengths, << 2, 2, 2, 2 >>) EXCEPT ![9] = Text],
     tabs |-> 0, eol |-> TRUE],
    [kind |-> "prefix only", fields |-> Prefix(Wavelengths), tabs |-> 1, eol |-> TRUE],
    [kind |-> "no line end", fields |-> DataFields(Wavelengths, << 2, 2, 2, 2 >>),
     tabs |-> 0, eol |-> FALSE],
    [kind |-> "huge count", fields |-> DataFields(ManyWavelengths, << 2, 2, 2, 2 >>),
     tabs |-> 0, eol |-> TRUE],
    [kind |-> "header", fields |-> << HeaderPart >>, tabs |-> 0, eol |-> TRUE],
    [kind |-> "text", fields |-> << Text, Text >>, tabs |-> 0, eol |-> TRUE],
    [kind |-> "bad prefix",
     fields |-> [DataFields(Wavelengths, << 2, 2, 2, 2 >>) EXCEPT ![3] = Text],
     tabs |-> 0, eol |-> TRUE] >>

MaxLines == 3

\* Files of up to MaxLines lines; only the last line of a file can lack its
\* line end.
TextFiles ==
    { f \in UNION { [1..n -> { LineCatalogue[k] : k \in DOMAIN LineCatalogue }] :
                    n \in 0..MaxLines } :
        \A i \in 1..(Len(f) - 1) : f[i].eol }

\* OptaaDjCsppParser.__init__ (lines 296-309) on a text file; the binary
\* parser does not run.
OptaaInit ==
    /\ lines \in TextFiles
    /\ outcomes = << >>
    /\ particle_data_handler = << >>
    /\ items = << >>
    /\ stream = << >>
    /\ pos = 0
    /\ pc = "line"
    /\ ph = << >>
    /\ delimiter = << >>
    /\ good_delimiter = TRUE
    /\ chan = 0
    /\ chan_values = << << >>, << >>, << >>, << >> >>
    /\ record_buffer = << >>
    /\ callbacks = << >>
    /\ raised = ""
    /\ fnr = [start |-> 0, end |-> 0, found |-> FALSE, calls |-> 0, returned |-> FALSE]
    /\ rec = [short |-> FALSE, calls |-> 0, buffer |-> << >>, body |-> 0,
              declared |-> 0]
    /\ hdr_reads = 0
    /\ spans = 0
    /\ DS = ZplscCCalibrationCoefficients
    /\ other = << >>
    /\ alone = NotAlone

\* What the binary parser owns.
ZplscVars ==
    << items, stream, ph, delimiter, good_delimiter, chan, chan_values, fnr, rec,
       hdr_reads, spans, DS, other, alone >>

\* Line 350: the for loop takes the next line.
Line == lines[pos + 1]
TakesLine == pc = "line" /\ pos < Len(lines)

\* CsppParser._process_data_match(fields, self._record_buffer): the particle
\* of the data match is buffered.
_process_data_match(fields, buffer) == Append(buffer, [data_match |-> fields])

\* Lines 352-361: the prefix matches, the pattern compiles and matches.
OptaaDataMatch ==
    /\ TakesLine
    /\ BEGIN_MATCHER(Line)
    /\ ~RegexRaises(_build_data_regex(BEGIN_REGEX, NumWavelengths(Line)))
    /\ DataRegexMatches(_build_data_regex(BEGIN_REGEX, NumWavelengths(Line)), Line)
    /\ record_buffer' = _process_data_match(Line.fields, record_buffer)
    /\ outcomes' = Append(outcomes, "data_match")
    /\ pos' = pos + 1
    /\ UNCHANGED << pc, callbacks, raised, lines, particle_data_handler >>
    /\ UNCHANGED ZplscVars

\* Lines 362-364: the prefix matches, the pattern compiles and does not match.
OptaaInvalidLine ==
    /\ TakesLine
    /\ BEGIN_MATCHER(Line)
    /\ ~RegexRaises(_build_data_regex(BEGIN_REGEX, NumWavelengths(Line)))
    /\ ~DataRegexMatches(_build_data_regex(BEGIN_REGEX, NumWavelengths(Line)), Line)
    /\ callbacks' = Append(callbacks, [type |-> "RecoverableSampleException",
                                       msg |-> "Found an invalid line"])
    /\ outcomes' = Append(outcomes, "invalid_line")
    /\ pos' = pos + 1
    /\ UNCHANGED << pc, record_buffer, raised, lines, particle_data_handler >>
    /\ UNCHANGED ZplscVars

\* Line 360: re.match raises while it compiles the pattern; parse_file has no
\* try statement, the exception leaves it.
OptaaRegexRaises ==
    /\ TakesLine
    /\ BEGIN_MATCHER(Line)
    /\ RegexRaises(_build_data_regex(BEGIN_REGEX, NumWavelengths(Line)))
    /\ pc' = "raised"
    /\ raised' = "OverflowError"
    /\ UNCHANGED << pos, outcomes, record_buffer, callbacks, lines,
                    particle_data_handler >>
    /\ UNCHANGED ZplscVars

\* Lines 366-371: no prefix, a header part.
OptaaHeaderPart ==
    /\ TakesLine
    /\ ~BEGIN_MATCHER(Line)
    /\ HEADER_PART_MATCHER(Line)
    /\ outcomes' = Append(outcomes, "header_part")
    /\ pos' = pos + 1
    /\ UNCHANGED << pc, record_buffer, callbacks, raised, lines,
                    particle_data_handler >>
    /\ UNCHANGED ZplscVars

\* Lines 372-373: no prefix, no header part.
OptaaOtherLine ==
    /\ TakesLine
    /\ ~BEGIN_MATCHER(Line)
    /\ ~HEADER_PART_MATCHER(Line)
    /\ outcomes' = Append(outcomes, "not_data_or_header")
    /\ pos' = pos + 1
    /\ UNCHANGED << pc, record_buffer, callbacks, raised, lines,
                    particle_data_handler >>
    /\ UNCHANGED ZplscVars

\* Line 350: the file has no further line, parse_file returns.
OptaaEndOfFile ==
    /\ pc = "line"
    /\ pos = Len(lines)
    /\ pc' = "done"
    /\ UNCHANGED << pos, outcomes, record_buffer, callbacks, raised, lines,
                    particle_data_handler >>
    /\ UNCHANGED ZplscVars

OptaaNext ==
    \/ OptaaDataMatch
    \/ OptaaInvalidLine
    \/ OptaaRegexRaises
    \/ OptaaHeaderPart
    \/ OptaaOtherLine
    \/ OptaaEndOfFile

OptaaSpec == OptaaInit /\ [][OptaaNext]_vars

------------------------------------------------------------------------------
\* pco2a_a_sample_driver.process: a parser wired to a particle data handler.
\*
\* ParticleDataHandler() as the driver tests construct it: no sample, no
\* capture failure.
ParticleDataHandler == [samples |-> << >>, failure |-> FALSE]

\* ParticleDataHandler.setParticleDataCaptureFailure.
setParticleDataCaptureFailure(handler) == [handler EXCEPT !.failure = TRUE]

\* A callback that drops what the parser reports.
exception_callback_Ignores(handler, ex) == handler

\* Line 43: lambda ex: particle_data_handler.setParticleDataCaptureFailure().
exception_callback(handler, ex) == setParticleDataCaptureFailure(handler)

\* What the parser can report through its exception callback.
ParserExceptions ==
    { "RecoverableSampleException", "SampleException", "UnexpectedDataException" }

\* The number of records of a file (particles and reports together).
MaxRecords == 4

\* process() is called with a new handler; no file is parsed yet.
DriverInit ==
    /\ particle_data_handler = ParticleDataHandler
    /\ lines = << >>
    /\ outcomes = << >>
    /\ items = << >>
    /\ stream = << >>
    /\ pos = 0
    /\ pc = "process"
    /\ ph = << >>
    /\ delimiter = << >>
    /\ good_delimiter = TRUE
    /\ chan = 0
    /\ chan_values = << << >>, << >>, << >>, << >> >>
    /\ record_buffer = << >>
    /\ callbacks = << >>
    /\ raised = ""
    /\ fnr = [start |-> 0, end |-> 0, found |-> FALSE, calls |-> 0, returned |-> FALSE]
    /\ rec = [short |-> FALSE, calls |-> 0, buffer |-> << >>, body |-> 0,
              declared |-> 0]
    /\ hdr_reads = 0
    /\ spans = 0
    /\ DS = ZplscCCalibrationCoefficients
    /\ other = << >>
    /\ alone = NotAlone

\* Lines 37-45: the file is opened, the parser is built with the callback,
\* the driver with the parser and the handler.
DriverStart ==
    /\ pc = "process"
    /\ pc' = "stream"
    /\ UNCHANGED << pos, record_buffer, callbacks, raised, lines, outcomes,
                    particle_data_handler >>
    /\ UNCHANGED ZplscVars

\* Line 46, processFileStream: the parser yields a particle, which the
\* driver hands to the handler.
DriverParticle ==
    /\ pc = "stream"
    /\ pos < MaxRecords
    /\ pos' = pos + 1
    /\ record_buffer' = Append(record_buffer, [record |-> pos'])
    /\ particle_data_handler' =
          [particle_data_handler EXCEPT !.samples = Append(@, [record |-> pos'])]
    /\ UNCHANGED << pc, callbacks, raised, lines, outcomes >>
    /\ UNCHANGED ZplscVars

\* Line 46, processFileStream: the parser reports an exception through its
\* exception callback, the callback returns and the parser goes on.
DriverException ==
    /\ pc = "stream"
    /\ pos < MaxRecords
    /\ pos' = pos + 1
    /\ \E ex \in ParserExceptions :
          /\ callbacks' = Append(callbacks, [type |-> ex, record |-> pos'])
          /\ particle_data_handler' = exception_callback(particle_data_handler, ex)
    /\ UNCHANGED << pc, record_buffer, raised, lines, outcomes >>
    /\ UNCHANGED ZplscVars

\* Lines 46-47: the parser has no further record, processFileStream and
\* process return.
DriverEnd ==
    /\ pc = "stream"
    /\ pc' = "done"
    /\ UNCHANGED << pos, record_buffer, callbacks, raised, lines, outcomes,
                    particle_data_handler >>
    /\ UNCHANGED ZplscVars

DriverNext ==
    \/ DriverStart
    \/ DriverParticle
    \/ DriverException
    \/ DriverEnd

DriverSpec == DriverInit /\ [][DriverNext]_vars

------------------------------------------------------------------------------
(* What the instrument's records hold, for comparison with the particles.  *)

Hf(it) == Catalogue[it.id].hf

\* The header scalar fields of a record, named as the particle names them.
ItemScalars(it) ==
    [serial_number |-> Hf(it)["serial_num"][1],
     phase |-> Hf(it)["phase"][1],
     burst_number |-> Hf(it)["burst_num"][1],
     tilt_x |-> Hf(it)["tilt_x"][1],
     tilt_y |-> Hf(it)["tilt_y"][1],
     battery_voltage |-> Hf(it)["battery_voltage"][1],
     pressure |-> Hf(it)["pressure"][1],
     temperature |-> Hf(it)["temperature"][1]]

ParticleScalars(p) ==
    [serial_number |-> p.serial_number,
     phase |-> p.phase,
     burst_number |-> p.burst_number,
     tilt_x |-> p.tilt_x,
     tilt_y |-> p.tilt_y,
     battery_voltage |-> p.battery_voltage,
     pressure |-> p.pressure,
     temperature |-> p.temperature]

ItemDivisor(it, c) ==
    IF Hf(it)["is_averaged_pings"][1] # 0
    THEN Hf(it)["num_pings_profile"][1] * Hf(it)["range_samples"][c]
    ELSE Hf(it)["range_samples"][c]

\* The linear value of an averaged bin parsed on its own: every overflow
\* adds 2^32 - 1 to the sum, and the total is divided, rounding down.
ItemLinear(bin, divisor) ==
    LimbsDiv(Limbs(bin.overflow, bin.sum.hi, bin.sum.lo - bin.overflow), divisor)

\* The channel values of a framed record parsed on its own.
ItemValues(it) ==
    [c \in 1..4 |->
        IF c > Hf(it)["num_channels"][1] THEN << >>
        ELSE IF Hf(it)["is_averaged_data"][c] = 0 THEN Catalogue[it.id].chans[c]
        ELSE [i \in DOMAIN Catalogue[it.id].chans[c] |->
                [sum |-> Catalogue[it.id].chans[c][i].sum,
                 overflow |-> Catalogue[it.id].chans[c][i].overflow,
                 divisor |-> ItemDivisor(it, c),
                 ds |-> ZplscCCalibrationCoefficients[c],
                 linear |-> ItemLinear(Catalogue[it.id].chans[c][i],
                                       ItemDivisor(it, c)),
                 value |->
                    [kind |-> IF \A k \in 1..3 :
                                    ItemLinear(Catalogue[it.id].chans[c][i],
                                               ItemDivisor(it, c))[k] = 0
                              THEN "zero" ELSE "finite",
                     log10_of |-> ItemLinear(Catalogue[it.id].chans[c][i],
                                             ItemDivisor(it, c)),
                     ds |-> ZplscCCalibrationCoefficients[c]]]]]

\* The particle of a well-formed record parsed on its own.
ItemParticle(it) ==
    [timestamp |->
        TimedeltaSince1900(Hf(it)["year"][1], Hf(it)["month"][1], Hf(it)["day"][1],
                           Hf(it)["hour"][1], Hf(it)["minute"][1], Hf(it)["second"][1],
                           Hf(it)["hundredths"][1] * 10000),
     serial_number |-> Hf(it)["serial_num"][1],
     phase |-> Hf(it)["phase"][1],
     burst_number |-> Hf(it)["burst_num"][1],
     tilt_x |-> Hf(it)["tilt_x"][1],
     tilt_y |-> Hf(it)["tilt_y"][1],
     battery_voltage |-> Hf(it)["battery_voltage"][1],
     pressure |-> Hf(it)["pressure"][1],
     temperature |-> Hf(it)["temperature"][1],
     is_averaged_data |-> Hf(it)["is_averaged_data"],
     frequency |-> Hf(it)["frequency"],
     values |-> compute_backscatter(ItemValues(it))]

IsGap(it) == it.id = 0
IsRecord(it) == it.id # 0

\* A fragment at the end of a file: the delimiter and fewer than 122 header bytes.
IsFragment(it) == it.id # 0 /\ Catalogue[it.id].take < 2 + HeaderSize

\* A framed record whose date-time fields form no valid date-time.
BadDate(it) == Framed(it) /\ ~FieldsDateValid(Hf(it))

\* A well-formed record that differs from another record of the catalogue in
\* its channel-body bytes only.
BodyChanged(it) ==
    /\ WellFormed(it)
    /\ \E id \in DOMAIN Catalogue :
          /\ Catalogue[id].hf = Hf(it)
          /\ Catalogue[id].take = Catalogue[it.id].take
          /\ Catalogue[id].chans # Catalogue[it.id].chans

\* parse_file has returned from its loop at end of stream.
Done == pc = "done"

CountOf(message) == Cardinality({ i \in DOMAIN callbacks : callbacks[i] = message })

------------------------------------------------------------------------------
(* The claims.                                                              *)

\* C1: for a file that is the concatenation of N well-formed records,
\* parse_file buffers exactly N particles, in file order, the i-th with the
\* header scalar fields of the i-th record, also when header or body bytes
\* hold the delimiter value.
C1_RoundTripFraming ==
    (Done /\ (\A i \in DOMAIN items : WellFormed(items[i]))) =>
        /\ Len(record_buffer) = Len(items)
        /\ \A i \in DOMAIN items :
              ParticleScalars(record_buffer[i]) = ItemScalars(items[i])

C1_Witness ==
    /\ Done /\ (\A i \in DOMAIN items : WellFormed(items[i]))
    /\ Len(items) = 3 /\ Len(record_buffer) = 3
    /\ items[1] # items[2]
    /\ HasDelimiter(EncodeHeader(Hf(items[1])))
    /\ HasDelimiter(EncodeBody(Hf(items[1]), Catalogue[items[1].id].chans))

\* The files of the resync property: two well-formed records with K >= 1
\* bytes that hold no delimiter between them.
GapFile ==
    /\ Len(items) = 3
    /\ WellFormed(items[1]) /\ IsGap(items[2]) /\ WellFormed(items[3])
    /\ ~HasDelimiter(items[2].gap)

\* C2: bytes without a delimiter inserted between two valid records leave
\* the particles those of the file without the insertion, and the exception
\* callback is invoked exactly once for the gap, whatever its length.
C2_Resync ==
    (Done /\ GapFile) =>
        /\ record_buffer = << ItemParticle(items[1]), ItemParticle(items[3]) >>
        /\ callbacks = << "Invalid record delimiter found" >>

C2_Witness ==
    /\ Done /\ GapFile
    /\ Len(items[2].gap) = MaxGap
    /\ items[2].gap[MaxGap] = 253
    /\ Len(callbacks) = 1

\* The files of the truncation property: well-formed records, then a
\* delimiter followed by fewer than 122 header bytes.
FragmentFile ==
    /\ Len(items) >= 1
    /\ IsFragment(items[Len(items)])
    /\ \A i \in 1..(Len(items) - 1) : WellFormed(items[i])

\* C3 (as claimed): a file that ends after a delimiter with 0..121 header
\* bytes yields no particle and no callback for the fragment and ends
\* normally.
C3_TruncatedHeaderIsEnd ==
    (FragmentFile /\ pc \notin { "halted", "raised" }) =>
        /\ Len(callbacks) = 0
        /\ Len(record_buffer) <= Len(items) - 1

\* C4 (as claimed): a record whose channel-body bytes alone were changed is
\* dropped with one diagnostic, its neighbours' particles are unchanged.
ChangedBodyFile ==
    /\ Len(items) = 3
    /\ WellFormed(items[1]) /\ BodyChanged(items[2]) /\ WellFormed(items[3])

C4_ChangedBodyDropped ==
    (Done /\ ChangedBodyFile) =>
        /\ record_buffer = << ItemParticle(items[1]), ItemParticle(items[3]) >>
        /\ Len(callbacks) = 1

\* C4 (amended): a record whose channel-body bytes alone were changed still
\* yields its particle, with the values decoded from the changed bytes and
\* the header fields as written, no diagnostic is reported, and its
\* neighbours' particles are unchanged.
C4_ChangedBodyEmitted ==
    (Done /\ ChangedBodyFile) =>
        /\ record_buffer = << ItemParticle(items[1]), ItemParticle(items[2]),
                              ItemParticle(items[3]) >>
        /\ callbacks = << >>

C4_Witness ==
    /\ Done /\ ChangedBodyFile
    /\ Len(record_buffer) = 3
    /\ Hf(items[2])["is_averaged_data"][1] # 0

\* C5 (as claimed): whatever a header holds, parse_file is never left by an
\* exception other than a stream I/O failure, and the channel loop never
\* indexes beyond the four channel slots.
C5_NoUncaughtException ==
    /\ raised \in { "", "IOError" }
    /\ (pc = "chan" /\ chan < NumChannels) => chan < ChannelSlots

\* C6: a header that declares more body bytes than the stream still holds
\* yields no particle and exactly one callback, the particles buffered
\* before it stay, and the parse ends normally at end of stream.
C6_ShortBodyDropped ==
    /\ rec.short => raised # "IndexError"
    /\ (Done /\ rec.short) =>
          /\ record_buffer = rec.buffer
          /\ Len(callbacks) = rec.calls + 1
          /\ callbacks[Len(callbacks)] = "Unpacking the data from the data structure"
          /\ pos = Len(stream)

C6_Witness ==
    /\ Done /\ rec.short
    /\ Len(rec.buffer) >= 1
    /\ Len(ph) = HeaderSize /\ hdr_reads >= 2
    /\ IsRecord(items[Len(items)])
    /\ Catalogue[items[Len(items)].id].take > 2 + HeaderSize

\* The files of the date claim: framed records only, each well-formed or
\* with invalid date-time fields.
DatedFile == \A i \in DOMAIN items : WellFormed(items[i]) \/ BadDate(items[i])

RECURSIVE Particles(_)
Particles(its) ==
    IF its = << >> THEN << >> ELSE << ItemParticle(Head(its)) >> \o Particles(Tail(its))

\* C7: a record whose date-time fields are invalid yields no particle and
\* exactly one diagnostic; its body has been consumed, so the records after
\* it are found with no invalid-delimiter diagnostic and yield their
\* particles.
C7_BadDateDropped ==
    (Done /\ DatedFile) =>
        /\ record_buffer = Particles(SelectSeq(items, WellFormed))
        /\ Len(callbacks) = Len(SelectSeq(items, BadDate))
        /\ CountOf("Transition timestamp has invalid format") = Len(callbacks)

C7_Witness ==
    /\ Done /\ DatedFile
    /\ Len(items) = 3
    /\ BadDate(items[2]) /\ Hf(items[2])["hundredths"][1] >= 100
    /\ Len(record_buffer) = 2 /\ Len(callbacks) = 1

\* C8 (as claimed): a failing read of the stream, wherever it happens, halts
\* the parse with exactly one diagnostic naming the read failure, and no
\* exception leaves parse_file.
C8_IOFailureReported ==
    (pc \in { "halted", "raised" } /\ raised # "IndexError") =>
        /\ raised = ""
        /\ CountOf("Reading stream handle") = 1

\* C9 (as claimed): when parse_file has run, the callback was invoked once
\* per misaligned span and once per record that was read and not buffered,
\* and no such anomaly interrupted the scan.
C9_OneDiagnosticPerAnomaly ==
    (Done \/ raised = "IndexError") =>
        /\ raised = ""
        /\ Len(callbacks) = spans + (hdr_reads - Len(record_buffer))

\* Bytes the last call of find_next_record passed over: all it consumed
\* but the delimiter it found.
Skipped == (fnr.end - fnr.start) - (IF fnr.found THEN 2 ELSE 0)

\* C10: a call of find_next_record invokes the exception callback once if
\* it passed over at least one byte before the delimiter or the end of the
\* stream, and not at all otherwise, however many bytes it passed over.
C10_OneReportPerSpan ==
    fnr.returned => fnr.calls = (IF Skipped >= 1 THEN 1 ELSE 0)

C10_Witness ==
    /\ fnr.returned
    /\ ~fnr.found
    /\ Skipped >= 3
    /\ fnr.calls = 1

\* Seconds from 1900-01-01T00:00:00 to a record's date and time, counted on
\* the calendar: whole years, whole months, days, then the time of day.  The
\* number is held as whole days, seconds of the day and microseconds.
DaysOfYearsSince1900(y) ==
    365 * (y - 1900) + Cardinality({ k \in 1900..(y - 1) : MonthLengths(k)[2] = 29 })

RECURSIVE DaysOfMonths(_, _)
DaysOfMonths(y, m) ==
    IF m = 0 THEN 0 ELSE DaysOfMonths(y, m - 1) + MonthLengths(y)[m]

CalendarSince1900(hf) ==
    [days |-> DaysOfYearsSince1900(hf["year"][1])
              + DaysOfMonths(hf["year"][1], hf["month"][1] - 1)
              + (hf["day"][1] - 1),
     seconds |-> hf["hour"][1] * 3600 + hf["minute"][1] * 60 + hf["second"][1],
     microseconds |-> hf["hundredths"][1] * 10000]

\* C11: for every record whose fields form a valid date-time, the particle's
\* timestamp is the number of seconds from 1900-01-01T00:00:00 to the
\* record's year-month-day hour:minute:second plus hundredths/100 s, as a
\* count on the Gregorian calendar gives it.
C11_TimestampSince1900 ==
    (DatedFile /\ Len(record_buffer) <= Len(SelectSeq(items, WellFormed))) =>
        \A i \in DOMAIN record_buffer :
            record_buffer[i].timestamp =
                CalendarSince1900(Hf(SelectSeq(items, WellFormed)[i]))

\* 2014-08-17 12:55:00.00 is 41866 days and 46500 s after the epoch
\* (3617268900 s), and a leap-day record with hundredths is stamped too.
C11_Witness ==
    /\ Done /\ DatedFile
    /\ Len(record_buffer) = 2
    /\ record_buffer[1].timestamp =
          [days |-> 41866, seconds |-> 46500, microseconds |-> 0]
    /\ record_buffer[2].timestamp.days = 42427
    /\ record_buffer[2].timestamp.microseconds = 990000

\* The averaged bins of a particle's channel c (1-based), none for a raw channel.
AveragedBins(p, c) ==
    IF p.is_averaged_data[c] # 0 THEN p.values.backscatter_of[c] ELSE << >>

\* (sum + overflow_count * 2^32) / divisor, rounded down as the integer
\* division of line 255 rounds.
ClaimedLinear(bin) ==
    LimbsDiv(<< bin.overflow, bin.sum.hi, bin.sum.lo >>, bin.divisor)

\* C12 (as claimed): the linear value of every bin of an averaged channel is
\* (sum + overflow_count * 2^32) / divisor, each overflow counting for 2^32.
C12_OverflowCountsTwoPow32 ==
    \A i \in DOMAIN record_buffer : \A c \in 1..ChannelSlots :
        \A k \in DOMAIN AveragedBins(record_buffer[i], c) :
            LET bin == AveragedBins(record_buffer[i], c)[k]
            IN  bin.divisor # 0 => bin.linear = ClaimedLinear(bin)

\* The well-formed records of the file, in file order.
WellFormedItems == SelectSeq(items, WellFormed)

\* The divisor as claimed, from the bin count of the channel (c 1-based).
DivisorFromNumBins(it, c) ==
    IF Hf(it)["is_averaged_pings"][1] # 0
    THEN Hf(it)["num_bins"][c] * Hf(it)["num_pings_profile"][1]
    ELSE Hf(it)["num_bins"][c]

\* C13 (as claimed): the divisor of an averaged channel is num_bins[chan] *
\* num_pings_profile when is_averaged_pings is non-zero, and num_bins[chan]
\* otherwise.
C13_DivisorFromNumBins ==
    (DatedFile /\ Len(record_buffer) <= Len(WellFormedItems)) =>
        \A i \in DOMAIN record_buffer : \A c \in 1..ChannelSlots :
            \A k \in DOMAIN AveragedBins(record_buffer[i], c) :
                AveragedBins(record_buffer[i], c)[k].divisor
                    = DivisorFromNumBins(WellFormedItems[i], c)

\* C13 (amended): the divisor of an averaged channel is range_samples[chan] *
\* num_pings_profile when is_averaged_pings is non-zero, and
\* range_samples[chan] otherwise.
C13_DivisorFromRangeSamples ==
    (DatedFile /\ Len(record_buffer) <= Len(WellFormedItems)) =>
        \A i \in DOMAIN record_buffer : \A c \in 1..ChannelSlots :
            \A k \in DOMAIN AveragedBins(record_buffer[i], c) :
                AveragedBins(record_buffer[i], c)[k].divisor
                    = ItemDivisor(WellFormedItems[i], c)

\* Both branches in one file: a ping-averaged record (divisor 3 * 2) and a
\* record without ping averaging (divisor 3), neither equal to its bin count.
C13_Witness ==
    /\ Done /\ DatedFile
    /\ Len(record_buffer) = 2
    /\ Hf(WellFormedItems[1])["is_averaged_pings"][1] # 0
    /\ Len(AveragedBins(record_buffer[1], 1)) = 1
    /\ AveragedBins(record_buffer[1], 1)[1].divisor = 6
    /\ Hf(WellFormedItems[2])["is_averaged_pings"][1] = 0
    /\ Len(AveragedBins(record_buffer[2], 3)) = 2
    /\ AveragedBins(record_buffer[2], 3)[1].divisor = 3
    /\ Hf(WellFormedItems[2])["num_bins"][3] = 2

\* The bytes the header in ph declares for its channels 0..k-1: 5 per bin
\* of an averaged channel, 2 per bin of a raw one.
DeclaredBytes(k) ==
    LET size[c \in 0..k] ==
            IF c = 0 THEN 0
            ELSE size[c - 1]
                 + Field(ph, "num_bins", c - 1)
                   * (IF Field(ph, "is_averaged_data", c - 1) # 0 THEN 5 ELSE 2)
    IN  size[k]

\* C14: the channel bodies are read in ascending channel index, each from
\* where the previous one ended: 5 bytes per bin of an averaged channel (all
\* its 32-bit sums, then all its 8-bit overflow counts) and 2 bytes per bin
\* of a raw one, nothing else being read; once a record is decoded the
\* cursor is at the end of the body its header declares.
C14_BodyConsumption ==
    /\ pc = "chan" =>
          /\ pos = rec.body + DeclaredBytes(chan)
          /\ \A c \in 0..(chan - 1) :
                EncodeChannel(Field(ph, "is_averaged_data", c) # 0, chan_values[c + 1])
                    = Slice(stream, rec.body + DeclaredBytes(c),
                            rec.body + DeclaredBytes(c + 1))
    /\ (pc = "find" /\ Len(record_buffer) = Len(rec.buffer) + 1) =>
          pos = rec.body + rec.declared

\* A record of four channels decoded: 2 raw bins, none, 2 averaged bins,
\* none, 14 bytes in all.
C14_Witness ==
    /\ pc = "chan" /\ chan = 4 /\ NumChannels = 4
    /\ Len(chan_values[1]) = 2 /\ Len(chan_values[3]) = 2
    /\ Field(ph, "is_averaged_data", 2) # 0
    /\ chan_values[3][1].overflow # chan_values[3][2].overflow
    /\ pos = rec.body + 14

\* A header read that found a whole header in the stream has just returned.
WholeHeaderRead == pc = "chan" /\ chan = 0 /\ Len(stream) - fnr.end >= 122

\* The number of elements of each field.
FieldCounts == [n \in FieldNames |-> FieldCount(n)]

\* The bytes of element k of field name in the structure's buffer b.
FieldBytes(b, name, k) ==
    SubSeq(b, FieldOffset(name) + k * FieldWidths[name] + 1,
              FieldOffset(name) + (k + 1) * FieldWidths[name])

\* The stream bytes at the documented place of element k of field name,
\* for a delimiter at offset d of the stream.
DocumentedBytes(d, name, k) ==
    SubSeq(stream, d + DocumentedOffset(name) + k * FieldWidths[name] + 1,
                   d + DocumentedOffset(name) + (k + 1) * FieldWidths[name])

\* C15: the header is 122 bytes (124 with the delimiter), packed without
\* padding, every field at its documented offset from the delimiter; a
\* header read with at least 122 bytes left moves the cursor by exactly
\* 122, and each field holds the stream bytes at its documented offset
\* from the delimiter, its value (for the fields of one or two bytes, the
\* 32-bit burst_interval being compared by its bytes) their big-endian
\* value.  The layout is that of the declaration, the same in every state:
\* it is compared with the documented one where the parse starts.
C15_HeaderLayout ==
    /\ pc = "start" =>
          /\ HeaderSize = 122
          /\ Len(PROFILE_DATA_DELIMITER) + HeaderSize = 124
          /\ Len(DocumentedOffsets) = Len(AzfpProfileHeaderFields)
          /\ \A n \in FieldNames :
                FieldOffset(n) + Len(PROFILE_DATA_DELIMITER) = DocumentedOffset(n)
    /\ WholeHeaderRead =>
          /\ rec.body = fnr.end + 122
          /\ \A n \in FieldNames : \A k \in 0..(FieldCounts[n] - 1) :
                /\ FieldBytes(ph, n, k) = DocumentedBytes(rec.body - 124, n, k)
                /\ FieldWidths[n] <= 2 =>
                      Field(ph, n, k)
                          = UBE(stream,
                                (rec.body - 124) + DocumentedOffset(n) + k * FieldWidths[n],
                                FieldWidths[n])

\* A whole header read at an odd offset, after a skipped byte: the fields
\* of the record behind it are found at their offsets.
C15_Witness ==
    /\ WholeHeaderRead
    /\ fnr.end % 2 = 1
    /\ chan = 0
    /\ F(ph, "num_channels") = 4
    /\ F(ph, "year") = 2014
    /\ Field(ph, "num_bins", 2) = 2
    /\ Field(ph, "range_samples", 2) = 3
    /\ Field(ph, "is_averaged_data", 3) = 1
    /\ Field(ph, "frequency", 3) = 455
    /\ F(ph, "temperature") = 40000
    /\ SubSeq(stream, rec.body - 123, rec.body - 122) = PROFILE_DATA_DELIMITER

\* The instance has run to the end of parse_file's code, with no failure
\* of a read.
Finished == pc = "done" \/ raised = "IndexError"

\* C16: an instance whose steps were interleaved in any order with those of
\* an instance on another file produced the particles and diagnostics it
\* produces alone, and no step modified the shared calibration list.
C16_IndependentInstances ==
    /\ DS = ZplscCCalibrationCoefficients
    /\ (alone.ran /\ alone.finished /\ Finished) =>
          /\ record_buffer = alone.record_buffer
          /\ callbacks = alone.callbacks
          /\ raised = alone.raised

\* Both instances were switched in mid-parse, both read the calibration
\* list, and the one run again alone had buffered particles and reported a
\* diagnostic.
C16_Witness ==
    /\ alone.ran /\ alone.finished /\ alone.mixed /\ Done
    /\ other.items # items
    /\ Len(record_buffer) >= 1 /\ Len(callbacks) >= 1
    /\ \E c \in 1..ChannelSlots : Len(AveragedBins(record_buffer[1], c)) >= 1
    /\ Len(other.record_buffer) >= 1
    /\ \E c \in 1..ChannelSlots : Len(AveragedBins(other.record_buffer[1], c)) >= 1

\* One turn of the delimiter search, and one turn of parse_file's loop from
\* its header read.
SearchTurn == pc = "scan" /\ pc' = "scan"
RecordTurn == pc = "header" /\ pc' = "chan"

\* parse_file has returned or has been left by an exception.
ParseEnded == pc \in { "done", "halted", "raised" }

\* C17: parse_file ends on every finite stream: every turn of the delimiter
\* search consumes a byte or finds the stream at its end, every turn of the
\* record loop consumes at least one byte, and a search that ends on an
\* empty window (end of stream) is followed by the end of the parse.
C17_Terminates ==
    /\ [][/\ SearchTurn => (pos' > pos \/ pos' = Len(stream))
          /\ RecordTurn => pos' > pos
          /\ (pc = "header" /\ delimiter = << >>) => ParseEnded']_vars
    /\ <>ParseEnded

\* A parse that passed over bytes up to the end of the stream, after a
\* record, and returned.
C17_Witness ==
    /\ Done
    /\ ~fnr.found /\ Skipped >= 2
    /\ hdr_reads >= 1
    /\ pos = Len(stream)

\* The delimiter stands at offset p (0-based) of the stream.
DelimiterAt(p) ==
    p + 2 <= Len(stream) /\ SubSeq(stream, p + 1, p + 2) = PROFILE_DATA_DELIMITER

\* C18: when find_next_record returns having found a delimiter, the cursor
\* is just behind the first FD 02 that starts at or after the position
\* where the call started, at any offset and also behind FD FD 02; when it
\* found none there is none up to the end of the stream, where the cursor
\* is; and a header is decoded only from the bytes that follow the
\* delimiter found.
C18_FirstDelimiter ==
    /\ (fnr.returned /\ fnr.found) =>
          /\ DelimiterAt(fnr.end - 2)
          /\ fnr.end - 2 >= fnr.start
          /\ \A p \in fnr.start..(fnr.end - 3) : ~DelimiterAt(p)
    /\ (fnr.returned /\ ~fnr.found) =>
          /\ fnr.end = Len(stream)
          /\ \A p \in fnr.start..Len(stream) : ~DelimiterAt(p)
    /\ pc = "header" => (pos = fnr.end /\ (fnr.found \/ pos = Len(stream)))
    /\ pc = "chan" =>
          /\ fnr.found
          /\ rec.body > fnr.end
          /\ Slice(ph, 0, rec.body - fnr.end) = Slice(stream, fnr.end, rec.body)

\* The delimiter found behind a 0xFD byte that follows a record (FD FD 02),
\* at an odd offset of the search, and the header behind it decoded.
C18_Witness ==
    /\ pc = "chan"
    /\ fnr.found
    /\ fnr.start > 0
    /\ fnr.end = fnr.start + 3
    /\ SubSeq(stream, fnr.start + 1, fnr.start + 3) = << 253, 253, 2 >>
    /\ fnr.calls = 1

\* A well-formed record one of whose channels has no bins.
HasEmptyChannel(it) ==
    WellFormed(it) /\ \E c \in 1..Hf(it)["num_channels"][1] : Hf(it)["num_bins"][c] = 0

\* The channel loop is about to decode a channel of no bins, and no read
\* of the stream fails.
EmptyChannelTurn ==
    /\ pc = "chan" /\ chan < NumChannels /\ chan < ChannelSlots
    /\ ChanBins(chan) = 0
    /\ pc' # "halted"

\* C19: decoding a channel with num_bins[chan] = 0, raw or averaged, leaves
\* the cursor where it is, gives an empty value array and reports nothing,
\* and the loop goes on to the next channel; a file of well-formed records
\* yields one particle per record and no diagnostic also when records have
\* such channels.
C19_EmptyChannel ==
    /\ [][EmptyChannelTurn =>
            /\ pos' = pos
            /\ chan_values' = [chan_values EXCEPT ![chan + 1] = << >>]
            /\ chan' = chan + 1
            /\ pc' = "chan"
            /\ UNCHANGED << callbacks, record_buffer, raised >>]_vars
    /\ []((Done /\ \A i \in DOMAIN items : WellFormed(items[i])) =>
            /\ record_buffer = Particles(items)
            /\ callbacks = << >>)

\* A record with an empty raw channel and an empty averaged channel, the
\* latter its last, followed by another record: both particles buffered.
C19_Witness ==
    /\ Done
    /\ Len(items) = 2 /\ HasEmptyChannel(items[1]) /\ WellFormed(items[2])
    /\ Hf(items[1])["is_averaged_data"][2] = 0 /\ Hf(items[1])["num_bins"][2] = 0
    /\ Hf(items[1])["is_averaged_data"][4] # 0 /\ Hf(items[1])["num_bins"][4] = 0
    /\ Hf(items[1])["num_channels"][1] = 4
    /\ Len(record_buffer) = 2
    /\ record_buffer[1].values.backscatter_of[2] = << >>
    /\ record_buffer[1].values.backscatter_of[4] = << >>
    /\ callbacks = << >>

\* The header fields of a record of which only the first n header bytes
\* reached the file, the missing bytes read as zero (no non-zero field of
\* the catalogue's fragments is cut in two).
TruncatedHf(it) ==
    LET n == Catalogue[it.id].take - Len(PROFILE_DATA_DELIMITER)
    IN  [name \in FieldNames |->
            [k \in 1..FieldCount(name) |->
                IF DocumentedOffset(name) - Len(PROFILE_DATA_DELIMITER)
                       + k * FieldWidth(name) <= n
                THEN Hf(it)[name][k] ELSE 0]]

TruncatedScalars(it) ==
    [serial_number |-> TruncatedHf(it)["serial_num"][1],
     phase |-> TruncatedHf(it)["phase"][1],
     burst_number |-> TruncatedHf(it)["burst_num"][1],
     tilt_x |-> TruncatedHf(it)["tilt_x"][1],
     tilt_y |-> TruncatedHf(it)["tilt_y"][1],
     battery_voltage |-> TruncatedHf(it)["battery_voltage"][1],
     pressure |-> TruncatedHf(it)["pressure"][1],
     temperature |-> TruncatedHf(it)["temperature"][1]]

\* A framed record, then a fragment whose header read yielded a particle.
FragmentParsed ==
    /\ Len(items) = 2 /\ Framed(items[1]) /\ IsFragment(items[2])
    /\ Done /\ hdr_reads = 2
    /\ Len(record_buffer) = Len(rec.buffer) + 1

\* C20: every header read fills a new, all-zero header: during each search
\* and before each read every byte of the header is zero; while a record is
\* parsed the header holds the bytes just read and zeros behind them, also
\* when fewer than 122 bytes were read and after a record was dropped; the
\* particle of a short header shows zero for every field that was not read.
C20_FreshHeader ==
    /\ pc \in { "find", "scan", "header" } =>
          (Len(ph) = 122 /\ \A i \in 1..122 : ph[i] = 0)
    /\ pc = "chan" =>
          /\ Len(ph) = 122
          /\ \A i \in 1..122 :
                ph[i] = (IF i <= rec.body - fnr.end THEN stream[fnr.end + i] ELSE 0)
    /\ FragmentParsed =>
          ParticleScalars(record_buffer[Len(record_buffer)]) = TruncatedScalars(items[2])

\* A record dropped for its date, with battery_voltage 65535 and
\* temperature 1, then a header read of 40 bytes that yields a particle:
\* its fields behind byte 40 are zero.
C20_Witness ==
    /\ FragmentParsed
    /\ BadDate(items[1])
    /\ callbacks = << "Transition timestamp has invalid format" >>
    /\ Hf(items[1])["battery_voltage"][1] = 65535
    /\ Hf(items[1])["temperature"][1] = 1
    /\ Hf(items[2])["temperature"][1] = 40000
    /\ Catalogue[items[2].id].take = 2 + 40
    /\ record_buffer[1].battery_voltage = 0
    /\ record_buffer[1].temperature = 0
    /\ record_buffer[1].burst_number = 7

\* ---------------------------------------------------------------------------
\* C21: for an averaged channel, a bin whose linear value after the division
\* is 0 is output by the transform as 0, never as an infinite value, and a bin
\* whose linear value is non-zero is output as the finite scaled logarithm of
\* that value, never clamped.
C21_InfiniteClampedToZero ==
    \A n \in 1..Len(record_buffer) : \A c \in 1..4 :
        \A i \in 1..Len(AveragedBins(record_buffer[n], c)) :
            LET bin == AveragedBins(record_buffer[n], c)[i]
            IN  /\ bin.value.log10_of = bin.linear
                /\ bin.value.kind \in {"zero", "finite"}
                /\ bin.value.kind = "zero" <=> bin.linear = << 0, 0, 0 >>

\* A particle was emitted for a channel holding one bin whose linear value
\* is 0 although its sum is not (2 / 3), and one bin whose value is not 0.
C21_Witness ==
    \E n \in 1..Len(record_buffer) :
        LET bins == AveragedBins(record_buffer[n], 3)
        IN  /\ Len(bins) = 2
            /\ bins[1].linear # << 0, 0, 0 >> /\ bins[1].value.kind = "finite"
            /\ bins[2].sum.lo = 2 /\ bins[2].divisor = 3
            /\ bins[2].linear = << 0, 0, 0 >> /\ bins[2].value.kind = "zero"

\* ---------------------------------------------------------------------------
\* The n 16-bit big-endian counts that start at offset o of the stream.
StreamCounts(o, n) ==
    [i \in 1..n |-> stream[o + 2 * i - 1] * 256 + stream[o + 2 * i]]

\* The step decodes one channel.
ChannelDecoded == pc = "chan" /\ pc' = "chan" /\ chan' = chan + 1

\* The step emits the particle of the record being parsed.
ParticleEmitted ==
    pc = "chan" /\ Len(record_buffer') = Len(record_buffer) + 1

\* C22: the values of a non-averaged channel are exactly its num_bins
\* big-endian 16-bit counts of the stream, in stream order; decoding a channel
\* (the averaged-data transform included) leaves the values of every other
\* channel as they were; and the values handed to the backscatter helper are
\* the decoded ones.
C22_RawChannelUntouched ==
    /\ [](pc = "chan" =>
            \A c \in 0..(chan - 1) :
                Field(ph, "is_averaged_data", c) = 0 =>
                    chan_values[c + 1]
                        = StreamCounts(rec.body + DeclaredBytes(c),
                                       Field(ph, "num_bins", c)))
    /\ [][ChannelDecoded =>
            \A k \in 1..4 : k # chan + 1 => chan_values'[k] = chan_values[k]]_vars
    /\ [][ParticleEmitted =>
            record_buffer'[Len(record_buffer')].values.backscatter_of
                = chan_values]_vars

\* A particle was emitted for a record whose first channel is raw (the counts
\* 100 and 64770) and whose third channel is averaged, decoded after it.
C22_Witness ==
    /\ pc = "find"
    /\ Len(record_buffer) = Len(rec.buffer) + 1
    /\ chan_values[1] = << 100, 64770 >>
    /\ Len(chan_values[3]) = 2
    /\ record_buffer[Len(record_buffer)].is_averaged_data = << 0, 0, 1, 1 >>
    /\ record_buffer[Len(record_buffer)].values.backscatter_of[1] = << 100, 64770 >>

\* ---------------------------------------------------------------------------
\* Two records whose headers differ, if at all, only in per-channel fields of
\* slots behind num_channels, with the same channel contents.
BeyondOnly(a, b) ==
    /\ WellFormed(a) /\ WellFormed(b)
    /\ Catalogue[a.id].chans = Catalogue[b.id].chans
    /\ \A name \in FieldNames : \A k \in 1..FieldCount(name) :
          Hf(a)[name][k] # Hf(b)[name][k] =>
              FieldCount(name) = ChannelSlots /\ k > Hf(a)["num_channels"][1]

\* A file of two such records, and the state in which the particle of the
\* second one has just been buffered: the search before it started where the
\* parse of the first one had stopped.
BeyondOnlyFile == Len(items) = 2 /\ BeyondOnly(items[1], items[2])
SecondEmitted ==
    pc = "find" /\ Len(record_buffer) = 2 /\ Len(rec.buffer) = 1
FirstBodyBytes == fnr.start - (2 + HeaderSize)
SecondBodyBytes == pos - rec.body

\* A particle without the is_averaged_data flags and frequencies of the
\* slots behind the first n.
UsedSlots(p, n) ==
    [p EXCEPT !.is_averaged_data = SubSeq(p.is_averaged_data, 1, n),
              !.frequency = SubSeq(p.frequency, 1, n)]

ExpectedOutcome(line) ==
    CASE line.kind = "data" -> "data_match"
      [] line.kind \in {"short array", "long arrays", "bad entry", "prefix only",
                        "no line end", "huge count"} -> "invalid_line"
      [] line.kind = "header" -> "header_part"
      [] OTHER -> "not_data_or_header"

TakenLines(outcome) ==
    { i \in 1..pos : ExpectedOutcome(lines[i]) = outcome }

\* C24: every line OptaaDjCsppParser.parse_file takes leads to exactly one
\* outcome: a data match (one particle) for a line with the prefix and four
\* arrays of num_wavelengths counts, exactly one RecoverableSampleException
\* and no particle for a line with the prefix that the full pattern does not
\* match, the header part or the non-data handling for any other line; and
\* no line keeps the lines behind it from being taken.
C24_OneOutcomePerLine ==
    /\ Len(outcomes) = pos
    /\ \A i \in 1..Len(outcomes) : outcomes[i] = ExpectedOutcome(lines[i])
    /\ Len(record_buffer) = Cardinality(TakenLines("data_match"))
    /\ Len(callbacks) = Cardinality(TakenLines("invalid_line"))
    /\ \A i \in 1..Len(callbacks) : callbacks[i].type = "RecoverableSampleException"
    /\ raised = ""
    /\ pc = "done" => pos = Len(lines)

\* ---------------------------------------------------------------------------
\* C25: every exception the parser reports through the exception callback
\* marks the particle data handler as capture-failed, the callback returning
\* to the parser and nothing being raised to the caller of process(); as long
\* as the parser has reported no exception the handler's failure flag is
\* False.
C25_CaptureFailure ==
    /\ [](particle_data_handler.failure <=> callbacks # << >>)
    /\ [](raised = "")
    /\ [][Len(callbacks') > Len(callbacks) =>
            /\ particle_data_handler'.failure
            /\ particle_data_handler'.samples = particle_data_handler.samples
            /\ pc' = pc /\ raised' = ""]_vars

\* process() returned after a particle, a reported exception and a further
\* particle: the handler holds both samples and is marked capture-failed.
C25_Witness ==
    /\ pc = "done"
    /\ Len(callbacks) = 1 /\ callbacks[1].record = 2
    /\ Len(particle_data_handler.samples) = 2
    /\ particle_data_handler.failure
    /\ raised = ""

====
